---------------------------- MODULE Spec2Model ----------------------------
(***************************************************************************)
(* DocChat backend: the document ingestion lifecycle (upload_document,     *)
(* reprocess_document), the metadata store (Supabase table "documents"),   *)
(* the vector store (Qdrant collection) with its tenant-filtered search    *)
(* and its scoped delete.                                                  *)
(*                                                                         *)
(* One step of a request handler is one call to an external service        *)
(* (metadata store, file storage, embedding provider, vector store)        *)
(* together with the local computation that follows it up to the next      *)
(* external call.  The outcome of every external call is drawn with \E.    *)
(***************************************************************************)
EXTENDS Integers, Sequences, FiniteSets, TLC

(***************************************************************************)
(* Bounds of the model.                                                    *)
(***************************************************************************)
\* Point ids (uuid4 values) that may be drawn in one behaviour.
MaxIds == 6
\* Temporary files that may be left behind on disk in one behaviour.
MaxTmp == 1
\* Scaled stand-in for batch_size = 10 of get_batch_embeddings
\* (src/backend/services/embedding.py:178).
EmbedBatchSize == 2
\* Scaled stand-in for batch_size = 100 of store_document_chunks
\* (src/backend/services/qdrant.py:157).
UpsertBatchSize == 2
\* Scaled stand-in for limit=10000 of the scroll of delete_document_vectors
\* (src/backend/services/qdrant.py:254).
ScrollLimit == 3
\* Longest list of texts and largest batch size of a direct call of the
\* embedding service.
MaxTexts == 3
\* Longest text, in segments, given to the chunker.
MaxSegs == 3
MaxBatch == 3
\* The chat sessions (answered questions) of a behaviour.
MaxSessions == 1
\* The points stored by the direct calls of store_document_chunks.
MaxStored == 3

(***************************************************************************)
(* Program constants.                                                      *)
(***************************************************************************)
\* stop_after_attempt of twice as many attempts.
MaxAttemptsDoubled == 2 * 3
\* stop_after_attempt(3) on get_embeddings.
MaxAttempts == 3
\* len(chunk.strip()) > 50 in chunk_text.
MinChunkLen == 50
\* limit=5 of the search ask_question makes (routes/ask.py).
AskLimit == 5
\* days_old=3 of the two calls of cleanup_task (main.py), in days.
RetentionDays == 3

(***************************************************************************)
(* Tenants, documents, files.                                              *)
(***************************************************************************)
Users == {"u1", "u2"}
Docs == {"d1", "d2"}
Paths == {"p1", "p2"}
Procs == {1, 2}

\* One segment produced by the text splitter: its text and the length of the
\* text with surrounding whitespace stripped.
Seg(t, n) == [text |-> t, len |-> n]

\* Three chunks: two batches of embeddings, two batches of points.
GoodText == <<Seg("a", 60), Seg("b", 60), Seg("c", 60)>>
\* A chunk equal to one of GoodText's, and a fragment of exactly the
\* threshold length.
ShortText == <<Seg("a", 60), Seg("s", 50)>>
\* Three chunks with a fragment of the threshold length between them.
MixedText == <<Seg("a", 60), Seg("s", 50), Seg("b", 60), Seg("c", 60)>>
SupportedTypes == {"pdf", "docx", "txt"}

\* What a document's file may be: its file type and its extracted text.
FileVariants ==
    { [type |-> "txt", text |-> MixedText],
      [type |-> "docx", text |-> <<Seg("s", 50)>>],
      [type |-> "pdf", text |-> <<>>],
      [type |-> "exe", text |-> GoodText] }

\* The external services a handler calls.
Services == {"db", "storage", "provider", "qdrant", "llm"}

RECURSIVE SumSeq(_)
SumSeq(s) == IF s = <<>> THEN 0 ELSE Head(s) + SumSeq(Tail(s))

Min(a, b) == IF a <= b THEN a ELSE b

Range(s) == {s[i] : i \in 1..Len(s)}

(***************************************************************************)
(* utils/chunking.py                                                       *)
(***************************************************************************)
\* text.strip() is empty.
IsBlank(text) == \A i \in 1..Len(text) : text[i].len = 0

\* IsLongChunk that keeps a chunk of the threshold length.
IsLongChunkInclusive(seg) == seg.len >= MinChunkLen

\* len(chunk.strip()) > 50
IsLongChunk(seg) == seg.len > MinChunkLen

\* chunk_text: the splitter's segments, the very short ones filtered out.
chunk_text(text) == SelectSeq(text, IsLongChunk)

\* process_document: the chunks, or the exception it raises.
process_document(text, file_type) ==
    IF file_type \notin SupportedTypes
    THEN [exc |-> "extract", chunks |-> <<>>]
    ELSE IF IsBlank(text)
    THEN [exc |-> "blank", chunks |-> <<>>]
    ELSE IF chunk_text(text) = <<>>
    THEN [exc |-> "nochunks", chunks |-> <<>>]
    ELSE [exc |-> "none", chunks |-> chunk_text(text)]

\* str(e) of the exception an ingestion attempt caught.
ErrMsg(exc) ==
    CASE exc = "metadata"     -> "Failed to get document metadata"
      [] exc = "status_processing" -> "Failed to update document status"
      [] exc = "status_completed"  -> "Failed to update document status"
      [] exc = "download"     -> "Failed to download file from storage"
      [] exc = "extract"      -> "Error extracting text from file"
      [] exc = "blank"        -> "No text could be extracted from the document"
      [] exc = "nochunks"     -> "No valid chunks could be created from the document"
      [] exc = "empty_chunks" -> "No text chunks could be extracted from the document"
      [] exc = "embed"        -> "RetryError"
      [] exc = "mismatch"     -> "Mismatch between number of chunks and embeddings"
      [] exc = "store"        -> "Failed to store document chunks"
      [] OTHER                -> ""

(***************************************************************************)
(* Vectors.  The provider's model maps a text to a vector of the           *)
(* collection's dimension; <<>> is the empty list get_embeddings appends   *)
(* for a nested response whose first element is empty.                     *)
(***************************************************************************)
EmbeddingOf(t) ==
    CASE t = "a" -> <<1, 0>>
      [] t = "b" -> <<0, 1>>
      [] t = "c" -> <<1, 1>>
      [] OTHER   -> <<1, 2>>

QueryVectors == { <<1, 0>>, <<1, 1>> }

Dot(v, w) == v[1] * w[1] + v[2] * w[2]
Abs(x) == IF x < 0 THEN -x ELSE x
\* Cosine similarity of q and v as the fraction num/den of its signed square.
Score(q, v) == [num |-> Dot(q, v) * Abs(Dot(q, v)), den |-> Dot(q, q) * Dot(v, v)]
ScoreLess(s, t) == s.num * t.den < t.num * s.den


(***************************************************************************)
(* State.                                                                  *)
(***************************************************************************)
VARIABLES
    docs,       \* metadata store: the rows of table "documents", by id
    storage,    \* storage bucket "documents": the files, by path
    points,     \* vector store: the points of the collection
    collection, \* vector store: whether the collection exists, and the
                \* payload fields it has an index for
    nextId,     \* the next point id uuid4 draws (ids are never drawn twice)
    tempFiles,  \* names of the temporary files that exist on local disk
    att,        \* per request task: position and local variables of its handler
    procs,      \* the request tasks that run in this behaviour
    faults,     \* the external services whose calls may fail in this behaviour
    chat,       \* metadata store: the rows of tables "chat_sessions" and
                \* "messages"
    now,        \* the clock datetime.utcnow() reads, in days
    hist        \* history, per document: chunk counts of the ingestion attempts
                \* that succeeded since the document's points were last deleted,
                \* and whether other points of the document were written or kept

vars == <<docs, storage, points, collection, nextId, tempFiles, att, procs, faults,
          chat, now, hist>>

NoMeta ==
    [exists |-> FALSE, user_id |-> "", name |-> "", file_path |-> "",
     file_type |-> "", status |-> "", error_message |-> "", created_at |-> 0]

NoResp == [kind |-> "none", code |-> 0, error |-> "", count |-> 0]
OkResp(n) == [kind |-> "ok", code |-> 200, error |-> "", count |-> n]
FailResp(msg) == [kind |-> "fail", code |-> 200, error |-> msg, count |-> 0]
HttpError(code) == [kind |-> "http", code |-> code, error |-> "", count |-> 0]

\* The values of document_ids: None, a list of ids, or a string.
NoDocIds == [tag |-> "none", ids |-> <<>>, id |-> ""]
DocIdList(ids) == [tag |-> "list", ids |-> ids, id |-> ""]
DocIdString(id) == [tag |-> "str", ids |-> <<>>, id |-> id]

\* The provider's replies to the requests of a direct call of the embedding
\* service, counted by kind.
NoLog == [ok |-> 0, busy |-> 0, error |-> 0]

IdleAtt ==
    [pc |-> "idle", op |-> "none", user |-> "", doc |-> "", file_path |-> "",
     doc_metadata |-> NoMeta, temp_file_path |-> 0, tmp_name |-> 0,
     chunks |-> <<>>, all_embeddings |-> <<>>,
     batch_i |-> 0, batch_emb |-> <<>>, attempt |-> 0, pts |-> <<>>,
     store_i |-> 0, exc |-> "none", swallowed |-> FALSE, resp |-> NoResp,
     reqs |-> <<>>, deleted_vectors_count |-> 0, warnings |-> {},
     batch_size |-> 0, calls |-> 0, log |-> NoLog,
     query |-> <<>>, document_ids |-> NoDocIds, limit |-> 0, results |-> <<>>,
     question |-> "", answer |-> "", sources |-> <<>>, llm_calls |-> 0,
     session_id |-> 0,
     loop_i |-> 0, deleted_docs |-> <<>>, failed_docs |-> <<>>,
     credentials |-> ""]

\* The handler has returned (or raised an HTTPException): its locals are gone;
\* what the caller sees, and what the attempt did, is kept.
Returned(a, exc, swallowed, resp) ==
    [IdleAtt EXCEPT !.pc = "returned", !.op = a.op, !.user = a.user,
                    !.doc = a.doc, !.tmp_name = a.tmp_name, !.exc = exc,
                    !.swallowed = swallowed, !.resp = resp]

Ready(p) == p \in procs /\ att[p].pc = "idle"

InitDoc(u, n, path, type) ==
    [exists |-> TRUE, user_id |-> u, name |-> n, file_path |-> path,
     file_type |-> type, status |-> "received", error_message |-> "",
     created_at |-> 0]

NoFile == [exists |-> FALSE, text |-> <<>>]
File(text) == [exists |-> TRUE, text |-> text]

\* The collection with its two indexes, as a call of
\* ensure_collection_exists that meets no failure leaves it, and no
\* collection.
FullCollection == [exists |-> TRUE, indexes |-> {"user_id", "document_id"}]
NoCollection == [exists |-> FALSE, indexes |-> {}]

\* No chat session and no message.
NoChat == [sessions |-> {}, messages |-> {}]

InitCommon ==
    /\ chat = NoChat
    /\ now = 0
    /\ points = {}
    /\ nextId = 1
    /\ tempFiles = {}
    /\ att = [p \in Procs |-> IdleAtt]
    /\ hist = [d \in Docs |-> [ns |-> <<>>, tainted |-> FALSE]]

\* One document was created (status received) and its file uploaded by the
\* frontend before the backend is asked to ingest it; no row has the other
\* id.  Every external service may fail.
Init ==
    /\ InitCommon
    /\ collection = FullCollection
    /\ \E v \in FileVariants :
         /\ docs = [d \in Docs |-> IF d = "d1"
                                   THEN InitDoc("u1", "n1", "p1", v.type)
                                   ELSE NoMeta]
         /\ storage = [f \in Paths |-> IF f = "p1" THEN File(v.text) ELSE NoFile]
    /\ procs = {1}
    /\ faults = Services

\* Two tenants with one document each; only the vector store may fail.
InitStore ==
    /\ InitCommon
    /\ collection = FullCollection
    /\ docs = [d \in Docs |-> IF d = "d1"
                              THEN InitDoc("u1", "n1", "p1", "txt")
                              ELSE InitDoc("u2", "n2", "p2", "pdf")]
    /\ storage = [f \in Paths |-> IF f = "p1" THEN File(GoodText)
                                              ELSE File(ShortText)]
    /\ procs = {1}
    /\ faults = {"qdrant"}

\* The outcomes (TRUE: success) a call to the service may have.
Outcomes(service) == IF service \in faults THEN BOOLEAN ELSE {TRUE}

(***************************************************************************)
(* services/supabase.py and utils/auth.py: the metadata store.             *)
(***************************************************************************)
\* verify_user_owns_document: False also when the query raises.
verify_user_owns_document(user_id, document_id, db_ok) ==
    /\ db_ok
    /\ document_id \in Docs
    /\ docs[document_id].exists
    /\ docs[document_id].user_id = user_id

\* get_document_metadata: the row with that id and that user_id, or None.
get_document_metadata(document_id, user_id) ==
    IF /\ document_id \in Docs
       /\ docs[document_id].exists
       /\ docs[document_id].user_id = user_id
    THEN docs[document_id]
    ELSE NoMeta

\* update_document_status that drops the error message.
update_document_status_without_message(table, document_id, status, error_message) ==
    [d \in Docs |->
        IF d = document_id /\ table[d].exists
        THEN [table[d] EXCEPT !.status = status]
        ELSE table[d]]

\* update_document_status: the table after the update of the row with that id.
\* error_message is written only when one is given; no update clears it.
update_document_status(table, document_id, status, error_message) ==
    [d \in Docs |->
        IF d = document_id /\ table[d].exists
        THEN [table[d] EXCEPT !.status = status,
                              !.error_message =
                                  IF error_message # "" THEN error_message ELSE @]
        ELSE table[d]]

(***************************************************************************)
(* services/qdrant.py: the vector store.                                   *)
(***************************************************************************)
PointStruct(id, vector, document_id, user_id, document_name, chunk, i, created_at) ==
    [id |-> id, vector |-> vector, document_id |-> document_id,
     user_id |-> user_id, document_name |-> document_name,
     chunk_text |-> chunk, chunk_index |-> i, created_at |-> created_at]

\* client.upsert: a point replaces the stored point of the same id.
Upsert(store, batch) ==
    {pt \in store : \A b \in batch : b.id # pt.id} \cup batch

\* The collection accepts only vectors of its dimension.
ValidVector(v) == v # <<>>

DocPoints(d) == {pt \in points : pt.document_id = d}


(***************************************************************************)
(* routes/upload.py: upload_document and reprocess_document.               *)
(*                                                                         *)
(* Positions of the handler: upload_entry (the ownership and metadata      *)
(* checks), set_processing, download, embed (one provider request per      *)
(* step), store_ensure, upsert (one batch per step), set_completed, except *)
(* (the handler of the outer try), returned.                               *)
(***************************************************************************)
\* An exception left the body of upload_document: the handler of the outer
\* try is next.  The locals of the body are gone.
Raised(a, exc) ==
    [IdleAtt EXCEPT !.pc = "except", !.op = a.op, !.user = a.user,
                    !.doc = a.doc, !.tmp_name = a.tmp_name, !.exc = exc]

\* The finally clause of upload_document has run on every path that leaves
\* the inner try: the file named by temp_file_path is unlinked.
LeftInnerTry(a2) == a2.pc \in {"except", "returned"}

Step(p, a2) ==
    /\ att' = [att EXCEPT ![p] = a2]
    /\ tempFiles' = IF LeftInnerTry(a2)
                    THEN tempFiles \ {att[p].temp_file_path}
                    ELSE tempFiles

\* The ids an ingestion of the file at path would draw are within the bound.
CanDraw(path) ==
    nextId - 1 + Len(chunk_text(storage[path].text)) <= MaxIds

\* The file_path a client sends with document_id: the path of the file it
\* uploaded for that document.
RequestPaths(d) == IF docs[d].exists THEN {docs[d].file_path} ELSE Paths

\* POST /upload_document with body (file_path, document_id) by current_user.
UploadRequest(p, u, d, path) ==
    /\ Ready(p)
    /\ path \in RequestPaths(d)
    /\ CanDraw(path)
    /\ att' = [att EXCEPT ![p] =
                 [IdleAtt EXCEPT !.pc = "upload_entry", !.op = "upload",
                                 !.user = u, !.doc = d, !.file_path = path]]
    /\ UNCHANGED <<collection, docs, storage, points, nextId, tempFiles, procs, faults, chat, now, hist>>

\* The checks both handlers start with: 403 unless the caller owns the
\* document, an exception when the metadata query fails, 404 when no row.
EntryChecks(a, db_ok, meta_ok, on_exception, next) ==
    IF ~verify_user_owns_document(a.user, a.doc, db_ok)
    THEN Returned(a, "none", FALSE, HttpError(403))
    ELSE IF ~meta_ok
    THEN on_exception
    ELSE IF ~get_document_metadata(a.doc, a.user).exists
    THEN Returned(a, "none", FALSE, HttpError(404))
    ELSE next

\* ReprocessNext that reprocesses only a document whose status is error.
ReprocessNextOnlyFailed(a, meta) ==
    IF meta.status = "error"
    THEN [a EXCEPT !.pc = "upload_entry", !.file_path = meta.file_path]
    ELSE Returned(a, "none", FALSE, FailResp("Document has not failed"))

\* reprocess_document: its checks, then the call of upload_document with the
\* file_path of the metadata row.  There is no condition on the row's status.
ReprocessNext(a, meta) ==
    [a EXCEPT !.pc = "upload_entry", !.file_path = meta.file_path]

ReprocessDocument(p, u, d) ==
    /\ Ready(p)
    /\ docs[d].exists => CanDraw(docs[d].file_path)
    /\ \E db_ok \in Outcomes("db"), meta_ok \in Outcomes("db") :
         LET a == [IdleAtt EXCEPT !.op = "reprocess", !.user = u, !.doc = d]
         IN  att' = [att EXCEPT ![p] =
                EntryChecks(a, db_ok, meta_ok,
                    Returned(a, "metadata", FALSE, FailResp(ErrMsg("metadata"))),
                    ReprocessNext(a, get_document_metadata(d, u)))]
    /\ UNCHANGED <<collection, docs, storage, points, nextId, tempFiles, procs, faults, chat, now, hist>>

\* UploadEntry without the ownership check and without the user_id condition
\* of the metadata query.
UploadEntryUnchecked(p) ==
    /\ p \in procs
    /\ att[p].pc = "upload_entry"
    /\ \E meta_ok \in Outcomes("db") :
         LET a == att[p]
         IN  att' = [att EXCEPT ![p] =
                IF ~meta_ok THEN Raised(a, "metadata")
                ELSE IF ~docs[a.doc].exists
                THEN Returned(a, "none", FALSE, HttpError(404))
                ELSE [a EXCEPT !.pc = "set_processing",
                               !.doc_metadata = docs[a.doc]]]
    /\ UNCHANGED <<collection, docs, storage, points, nextId, tempFiles, procs, faults, chat, now, hist>>

UploadEntry(p) ==
    /\ p \in procs
    /\ att[p].pc = "upload_entry"
    /\ \E db_ok \in Outcomes("db"), meta_ok \in Outcomes("db") :
         LET a == att[p]
         IN  att' = [att EXCEPT ![p] =
                EntryChecks(a, db_ok, meta_ok, Raised(a, "metadata"),
                    [a EXCEPT !.pc = "set_processing",
                              !.doc_metadata = get_document_metadata(a.doc, a.user)])]
    /\ UNCHANGED <<collection, docs, storage, points, nextId, tempFiles, procs, faults, chat, now, hist>>

\* await update_document_status(request.document_id, "processing")
SetProcessing(p) ==
    /\ p \in procs
    /\ att[p].pc = "set_processing"
    /\ \E ok \in Outcomes("db") :
         IF ok
         THEN /\ docs' = update_document_status(docs, att[p].doc, "processing", "")
              /\ att' = [att EXCEPT ![p].pc = "download"]
         ELSE /\ docs' = docs
              /\ att' = [att EXCEPT ![p] = Raised(att[p], "status_processing")]
    /\ UNCHANGED <<collection, storage, points, nextId, tempFiles, procs, faults, chat, now, hist>>

\* A name no existing temporary file has.
FreshTmp == CHOOSE n \in 1..(Cardinality(tempFiles) + 1) : n \notin tempFiles

\* After the download: process_document on the temporary file with the file
\* type of the metadata row, the check of its result, and the first batch of
\* get_batch_embeddings set up.
AfterDownload(a, text) ==
    LET r == process_document(text, a.doc_metadata.file_type)
    IN  IF r.exc # "none" THEN Raised(a, r.exc)
        ELSE IF r.chunks = <<>> THEN Raised(a, "empty_chunks")
        ELSE [a EXCEPT !.pc = "embed", !.chunks = r.chunks,
                       !.all_embeddings = <<>>, !.batch_i = 0,
                       !.batch_emb = <<>>, !.attempt = 1,
                       !.batch_size = EmbedBatchSize, !.calls = 1]

\* download_file_from_storage(request.file_path): it fails before it creates
\* the temporary file ("fail": the storage service fails, or it has no file
\* at that path), fails after it created the file, while it writes the
\* content ("fail_after_create"), or returns the file's name.
Download(p) ==
    /\ p \in procs
    /\ att[p].pc = "download"
    /\ \E r \in (IF storage[att[p].file_path].exists THEN {"ok"} ELSE {"fail"})
                  \cup (IF "storage" \in faults
                        THEN {"fail", "fail_after_create"} ELSE {}) :
         LET a == att[p]
         IN  CASE r = "fail" ->
                    /\ att' = [att EXCEPT ![p] = Raised(a, "download")]
                    /\ tempFiles' = tempFiles
               [] r = "fail_after_create" ->
                    /\ storage[a.file_path].exists
                    /\ Cardinality(tempFiles) < MaxTmp
                    /\ att' = [att EXCEPT ![p] =
                                 Raised([a EXCEPT !.tmp_name = FreshTmp], "download")]
                    /\ tempFiles' = tempFiles \cup {FreshTmp}
               [] r = "ok" ->
                    /\ LET a1 == [a EXCEPT !.temp_file_path = FreshTmp,
                                           !.tmp_name = FreshTmp]
                           a2 == AfterDownload(a1, storage[a.file_path].text)
                       IN  /\ att' = [att EXCEPT ![p] = a2]
                           /\ tempFiles' = IF LeftInnerTry(a2) THEN tempFiles
                                           ELSE tempFiles \cup {FreshTmp}
    /\ UNCHANGED <<collection, docs, storage, points, nextId, procs, faults, chat, now, hist>>

(***************************************************************************)
(* services/embedding.py: get_batch_embeddings and get_embeddings.         *)
(***************************************************************************)
\* What one request to the provider may answer: a vector, flat or as the
\* first element of a nested list ("ok"), status 503 ("503"), any other
\* status, an unexpected format or a request error ("error").
ProviderReplies == {"ok", "503", "error"}

\* The direct calls of the embedding service.
EmbeddingCalls == {"get_embeddings", "get_batch_embeddings"}

\* batch = texts[i:i + batch_size]
CurrentBatch(a) ==
    SubSeq(a.chunks, a.batch_i + 1, Min(a.batch_i + a.batch_size, Len(a.chunks)))

\* get_batch_embeddings has returned all_embeddings: the length check of
\* upload_document, then store_document_chunks is called.
AfterEmbeddings(a, all) ==
    IF Len(all) # Len(a.chunks) THEN Raised(a, "mismatch")
    ELSE [a EXCEPT !.pc = "store_ensure", !.all_embeddings = all,
                   !.batch_emb = <<>>]

\* A direct call of the embedding service has returned all (exc = "none") or
\* raised: its texts, its result and what it did are kept.
EmbeddingReturn(a, exc, all) ==
    [Returned(a, exc, FALSE,
              IF exc = "none" THEN OkResp(Len(all)) ELSE FailResp(ErrMsg(exc)))
        EXCEPT !.chunks = a.chunks, !.all_embeddings = all,
               !.batch_size = a.batch_size, !.calls = a.calls, !.log = a.log]

\* The two endpoints of routes/ask.py; ask_quick_question calls ask_question.
AskOps == {"ask", "ask_quick"}

\* str(e) of the exception ask_question caught.
AskErrMsg(exc) ==
    CASE exc = "documents"  -> "Failed to get documents by IDs"
      [] exc = "embed"      -> "RetryError"
      [] exc = "no_embedding" -> "Failed to generate embedding for the question"
      [] exc = "search"     -> "Failed to search similar chunks"
      [] exc = "generate"   -> "Failed to generate answer"
      [] OTHER              -> ""

\* ask_question has returned resp (or raised the HTTPException resp): the
\* request, the answer and the sources of the response, and the calls of the
\* answer generator it made, are kept.
AskReturn(a, exc, swallowed, resp, answer, sources) ==
    [Returned(a, exc, swallowed, resp)
        EXCEPT !.question = a.question, !.document_ids = a.document_ids,
               !.answer = answer, !.sources = sources,
               !.llm_calls = a.llm_calls]

\* The handler of "except Exception" of ask_question: success=False.
AskFail(a, exc) ==
    AskReturn(a, exc, FALSE, FailResp(AskErrMsg(exc)), "", <<>>)

\* get_single_embedding has returned embeddings[0] (or []): the check of
\* the embedding, then search_similar_chunks is called with limit=5.
AskAfterEmbedding(a, all) ==
    LET question_embedding == IF all = <<>> THEN <<>> ELSE all[1]
    IN  IF question_embedding = <<>>
        THEN AskFail(a, "no_embedding")
        ELSE [a EXCEPT !.pc = "search_ensure", !.query = question_embedding,
                       !.limit = AskLimit, !.chunks = <<>>, !.batch_emb = <<>>,
                       !.all_embeddings = <<>>, !.attempt = 0, !.calls = 0,
                       !.batch_size = 0, !.batch_i = 0]

\* The embedding service returns all to its caller.
EmbeddingsDone(a, all) ==
    IF a.op \in EmbeddingCalls THEN EmbeddingReturn(a, "none", all)
    ELSE IF a.op \in AskOps THEN AskAfterEmbedding(a, all)
    ELSE AfterEmbeddings(a, all)

\* EmbeddingsFailed that returns the vectors of the batches before the
\* failed one.
EmbeddingsFailedPartial(a) == EmbeddingsDone(a, a.all_embeddings)

\* The last attempt of get_embeddings failed: the exception of the retry
\* decorator reaches the caller.
EmbeddingsFailed(a) ==
    IF a.op \in EmbeddingCalls THEN EmbeddingReturn(a, "embed", <<>>)
    ELSE IF a.op \in AskOps THEN AskFail(a, "embed")
    ELSE Raised(a, "embed")

\* AfterBatch that keeps only the vectors of the last batch.
AfterBatchKeepingLast(a, emb) ==
    IF a.batch_i + a.batch_size < Len(a.chunks)
    THEN [a EXCEPT !.all_embeddings = emb,
                   !.batch_i = a.batch_i + a.batch_size,
                   !.batch_emb = <<>>, !.attempt = 1, !.calls = a.calls + 1]
    ELSE EmbeddingsDone(a, emb)

\* get_embeddings(batch) has returned emb: all_embeddings.extend, then the
\* call for the next batch, or the return of get_batch_embeddings.
AfterBatch(a, emb) ==
    LET all == a.all_embeddings \o emb
    IN  IF a.batch_i + a.batch_size < Len(a.chunks)
        THEN [a EXCEPT !.all_embeddings = all,
                       !.batch_i = a.batch_i + a.batch_size,
                       !.batch_emb = <<>>, !.attempt = 1, !.calls = a.calls + 1]
        ELSE EmbeddingsDone(a, all)

\* The log of a direct call after one more reply of the provider.
Logged(a, reply) ==
    IF a.op \notin EmbeddingCalls THEN a.log
    ELSE CASE reply = "ok"  -> [a.log EXCEPT !.ok = @ + 1]
           [] reply = "503" -> [a.log EXCEPT !.busy = @ + 1]
           [] OTHER         -> [a.log EXCEPT !.error = @ + 1]

\* One request of get_embeddings for the next text of the batch.  A failure
\* ends this call of get_embeddings; the retry decorator calls it again, from
\* the batch's first text, unless this was the last attempt.
EmbedStep(a, reply) ==
    LET batch == CurrentBatch(a)
        text  == batch[Len(a.batch_emb) + 1].text
        b     == [a EXCEPT !.log = Logged(a, reply)]
    IN  IF reply = "ok"
        THEN LET emb == Append(a.batch_emb, EmbeddingOf(text))
             IN  IF Len(emb) < Len(batch)
                 THEN [b EXCEPT !.batch_emb = emb]
                 ELSE AfterBatch(b, emb)
        ELSE IF a.attempt < MaxAttempts
             THEN [b EXCEPT !.attempt = a.attempt + 1, !.batch_emb = <<>>]
             ELSE EmbeddingsFailed(b)

EmbedRequest(p) ==
    /\ p \in procs
    /\ att[p].pc = "embed"
    /\ \E reply \in (IF "provider" \in faults THEN ProviderReplies ELSE {"ok"}) :
         Step(p, EmbedStep(att[p], reply))
    /\ UNCHANGED <<collection, docs, storage, points, nextId, procs, faults, chat, now, hist>>


\* get_embeddings that rejects an empty list.
get_embeddings_rejecting_empty(a, texts) ==
    IF texts = <<>>
    THEN EmbeddingReturn([a EXCEPT !.chunks = texts], "embed", <<>>)
    ELSE [a EXCEPT !.pc = "embed", !.chunks = texts, !.batch_size = Len(texts),
                   !.attempt = 1, !.calls = 1]

\* get_embeddings(texts), called directly: [] at once for no texts, else the
\* requests, one per text.
get_embeddings(a, texts) ==
    IF texts = <<>>
    THEN EmbeddingReturn([a EXCEPT !.chunks = texts], "none", <<>>)
    ELSE [a EXCEPT !.pc = "embed", !.chunks = texts, !.batch_size = Len(texts),
                   !.attempt = 1, !.calls = 1]

\* get_batch_embeddings(texts, batch_size), called directly: the loop over
\* range(0, len(texts), batch_size) makes no call for no texts.
get_batch_embeddings(a, texts, batch_size) ==
    IF texts = <<>>
    THEN EmbeddingReturn([a EXCEPT !.chunks = texts, !.batch_size = batch_size],
                         "none", <<>>)
    ELSE [a EXCEPT !.pc = "embed", !.chunks = texts, !.batch_size = batch_size,
                   !.attempt = 1, !.calls = 1]

GetEmbeddings(p, texts) ==
    /\ Ready(p)
    /\ att' = [att EXCEPT ![p] =
                 get_embeddings([IdleAtt EXCEPT !.op = "get_embeddings"], texts)]
    /\ UNCHANGED <<collection, docs, storage, points, nextId, tempFiles, procs, faults, chat, now, hist>>

GetBatchEmbeddings(p, texts, batch_size) ==
    /\ Ready(p)
    /\ att' = [att EXCEPT ![p] =
                 get_batch_embeddings([IdleAtt EXCEPT !.op = "get_batch_embeddings"],
                                      texts, batch_size)]
    /\ UNCHANGED <<collection, docs, storage, points, nextId, tempFiles, procs, faults, chat, now, hist>>


(***************************************************************************)
(* store_document_chunks, as called by upload_document.                    *)
(***************************************************************************)
\* PointId that numbers the points of every call from 1.
PointIdReused(first_id, i) == i

\* str(uuid.uuid4()) for the i-th point (i from 1) of a call that draws its
\* first id as first_id.
PointId(first_id, i) == first_id + i - 1

\* BuildPoints that numbers the chunks from 1.
BuildPointsFromOne(a, first_id) ==
    [i \in 1..Min(Len(a.chunks), Len(a.all_embeddings)) |->
        PointStruct(PointId(first_id, i), a.all_embeddings[i], a.doc, a.user,
                    a.doc_metadata.name, a.chunks[i].text, i, now)]

\* The list points of store_document_chunks: one point per (chunk, embedding)
\* pair of zip(chunks, embeddings), chunk_index counted from 0.
BuildPoints(a, first_id) ==
    [i \in 1..Min(Len(a.chunks), Len(a.all_embeddings)) |->
        PointStruct(PointId(first_id, i), a.all_embeddings[i], a.doc, a.user,
                    a.doc_metadata.name, a.chunks[i].text, i - 1, now)]

\* What the vector store may answer to a request: "ok", or "error" when the
\* service fails; to create_payload_index for a field that has its index
\* also "exists", the error that the index is already there.
CallOutcomes == IF "qdrant" \in faults THEN {"ok", "error"} ELSE {"ok"}

IndexOutcomes(field) ==
    CallOutcomes \cup (IF field \in collection.indexes THEN {"exists"} ELSE {})

EnsureOutcomes ==
    [list : CallOutcomes, create : CallOutcomes, info : CallOutcomes,
     index_user : IndexOutcomes("user_id"),
     index_doc : IndexOutcomes("document_id")]

WithIndex(c, field, outcome) ==
    IF outcome = "ok" THEN [c EXCEPT !.indexes = @ \cup {field}] ELSE c

\* ensure_collection_exists whose second branch lets the errors of
\* create_payload_index through to the outer handler.
ensure_collection_exists_unguarded(c, o) ==
    IF o.list = "error"
    THEN [coll |-> c, raised |-> TRUE, faulty |-> TRUE,
          reqs |-> <<"get_collections">>]
    ELSE IF ~c.exists
    THEN LET c1 == [exists |-> TRUE, indexes |-> {}]
             c2 == WithIndex(c1, "user_id", "ok")
             c3 == WithIndex(c2, "document_id", "ok")
         IN  IF o.create = "error"
             THEN [coll |-> c, raised |-> TRUE, faulty |-> TRUE,
                   reqs |-> <<"get_collections", "create_collection">>]
             ELSE IF o.index_user = "error"
             THEN [coll |-> c1, raised |-> TRUE, faulty |-> TRUE,
                   reqs |-> <<"get_collections", "create_collection",
                              "index_user_id">>]
             ELSE IF o.index_doc = "error"
             THEN [coll |-> c2, raised |-> TRUE, faulty |-> TRUE,
                   reqs |-> <<"get_collections", "create_collection",
                              "index_user_id", "index_document_id">>]
             ELSE [coll |-> c3, raised |-> FALSE, faulty |-> FALSE,
                   reqs |-> <<"get_collections", "create_collection",
                              "index_user_id", "index_document_id">>]
    ELSE IF o.info = "error"
    THEN [coll |-> c, raised |-> FALSE, faulty |-> TRUE,
          reqs |-> <<"get_collections", "get_collection">>]
    ELSE IF o.index_user # "ok"
    THEN [coll |-> c, raised |-> TRUE, faulty |-> o.index_user = "error",
          reqs |-> <<"get_collections", "get_collection", "index_user_id">>]
    ELSE IF o.index_doc # "ok"
    THEN [coll |-> WithIndex(c, "user_id", "ok"), raised |-> TRUE,
          faulty |-> o.index_doc = "error",
          reqs |-> <<"get_collections", "get_collection",
                     "index_user_id", "index_document_id">>]
    ELSE [coll |-> WithIndex(WithIndex(c, "user_id", o.index_user),
                             "document_id", o.index_doc),
          raised |-> FALSE,
          faulty |-> o.index_user = "error" \/ o.index_doc = "error",
          reqs |-> <<"get_collections", "get_collection",
                     "index_user_id", "index_document_id">>]

\* ensure_collection_exists on collection state c when the store answers its
\* requests with o: the state it leaves, whether it raised, whether a request
\* failed for another reason than an index being there, and the requests it
\* sent.
ensure_collection_exists(c, o) ==
    IF o.list = "error"
    THEN [coll |-> c, raised |-> TRUE, faulty |-> TRUE,
          reqs |-> <<"get_collections">>]
    ELSE IF ~c.exists
    THEN LET c1 == [exists |-> TRUE, indexes |-> {}]
             c2 == WithIndex(c1, "user_id", "ok")
             c3 == WithIndex(c2, "document_id", "ok")
         IN  IF o.create = "error"
             THEN [coll |-> c, raised |-> TRUE, faulty |-> TRUE,
                   reqs |-> <<"get_collections", "create_collection">>]
             ELSE IF o.index_user = "error"
             THEN [coll |-> c1, raised |-> TRUE, faulty |-> TRUE,
                   reqs |-> <<"get_collections", "create_collection",
                              "index_user_id">>]
             ELSE IF o.index_doc = "error"
             THEN [coll |-> c2, raised |-> TRUE, faulty |-> TRUE,
                   reqs |-> <<"get_collections", "create_collection",
                              "index_user_id", "index_document_id">>]
             ELSE [coll |-> c3, raised |-> FALSE, faulty |-> FALSE,
                   reqs |-> <<"get_collections", "create_collection",
                              "index_user_id", "index_document_id">>]
    ELSE IF o.info = "error"
    THEN [coll |-> c, raised |-> FALSE, faulty |-> TRUE,
          reqs |-> <<"get_collections", "get_collection">>]
    ELSE [coll |-> WithIndex(WithIndex(c, "user_id", o.index_user),
                             "document_id", o.index_doc),
          raised |-> FALSE,
          faulty |-> o.index_user = "error" \/ o.index_doc = "error",
          reqs |-> <<"get_collections", "get_collection",
                     "index_user_id", "index_document_id">>]

\* A direct call of ensure_collection_exists.
EnsureCollectionExists(p) ==
    /\ Ready(p)
    /\ \E o \in EnsureOutcomes :
         LET r == ensure_collection_exists(collection, o)
             a == [IdleAtt EXCEPT !.op = "ensure_collection"]
             ret == IF r.raised
                    THEN Returned(a, "ensure", FALSE,
                                  FailResp("Failed to ensure collection exists"))
                    ELSE Returned(a, "none", FALSE, OkResp(0))
         IN  /\ collection' = r.coll
             /\ att' = [att EXCEPT ![p] =
                          [ret EXCEPT !.reqs = r.reqs, !.swallowed = r.faulty]]
    /\ UNCHANGED <<docs, storage, points, nextId, tempFiles, procs, faults, chat, now, hist>>

\* The points this call of store_document_chunks has written so far stay in
\* the store of a document whose ingestion did not succeed.
Taint(h, d) == [h EXCEPT ![d].tainted = TRUE]

\* The direct calls of store_document_chunks.
StoreCalls == {"store"}

\* store_document_chunks raises: into the handler of upload_document, or to
\* the caller of a direct call.
StoreRaised(a) ==
    IF a.op \in StoreCalls
    THEN Returned(a, "store", FALSE, FailResp(ErrMsg("store")))
    ELSE Raised(a, "store")

\* A direct call store_document_chunks(document_id, user_id, document_name,
\* chunks, embeddings).  The number of points of a behaviour that makes
\* direct calls is bounded.
StoreDocumentChunks(p, document_id, user_id, document_name, chunks, embeddings) ==
    /\ Ready(p)
    /\ nextId - 1 + Min(Len(chunks), Len(embeddings)) <= MaxStored
    /\ att' = [att EXCEPT ![p] =
                 [IdleAtt EXCEPT !.pc = "store_ensure", !.op = "store",
                                 !.doc = document_id, !.user = user_id,
                                 !.doc_metadata =
                                     [NoMeta EXCEPT !.name = document_name],
                                 !.chunks = chunks,
                                 !.all_embeddings = embeddings]]
    /\ hist' = Taint(hist, document_id)
    /\ UNCHANGED <<collection, docs, storage, points, nextId, tempFiles, procs,
                   faults, chat, now>>

\* await ensure_collection_exists(), then the points are built.
EnsureCollection(p) ==
    /\ p \in procs
    /\ att[p].pc = "store_ensure"
    /\ \E o \in EnsureOutcomes :
         LET r == ensure_collection_exists(collection, o)
         IN  /\ collection' = r.coll
             /\ IF ~r.raised
                THEN LET pts == BuildPoints(att[p], nextId)
                     IN  /\ Step(p, [att[p] EXCEPT !.pc = "upsert", !.pts = pts,
                                                   !.store_i = 0])
                         /\ nextId' = nextId + Len(pts)
                ELSE /\ Step(p, StoreRaised(att[p]))
                     /\ nextId' = nextId
    /\ UNCHANGED <<docs, storage, points, procs, faults, chat, now, hist>>

UpsertBatchOf(a) ==
    SubSeq(a.pts, a.store_i + 1, Min(a.store_i + UpsertBatchSize, Len(a.pts)))

\* client.upsert of one batch returned: the next batch, or the return of
\* store_document_chunks (len(points)) into upload_document.
OnUpsertOk(a) ==
    IF a.store_i + UpsertBatchSize < Len(a.pts)
    THEN [a EXCEPT !.store_i = a.store_i + UpsertBatchSize]
    ELSE IF a.op \in StoreCalls
    THEN Returned(a, "none", FALSE, OkResp(Len(a.pts)))
    ELSE [a EXCEPT !.store_i = a.store_i + UpsertBatchSize,
                   !.pc = "set_completed"]

\* OnUpsertFailure that swallows the error and goes on with the next batch.
OnUpsertFailureSwallowed(a) == OnUpsertOk(a)

\* client.upsert of one batch raised: store_document_chunks raises.
OnUpsertFailure(a) == StoreRaised(a)

UpsertBatch(p) ==
    /\ p \in procs
    /\ att[p].pc = "upsert"
    /\ LET a == att[p]
           batch == Range(UpsertBatchOf(a))
       IN  \E ok \in Outcomes("qdrant") :
             IF ok /\ \A pt \in batch : ValidVector(pt.vector)
             THEN /\ points' = Upsert(points, batch)
                  /\ Step(p, OnUpsertOk(a))
                  /\ hist' = hist
             ELSE /\ points' = points
                  /\ Step(p, OnUpsertFailure(a))
                  /\ hist' = IF a.store_i > 0 /\ LeftInnerTry(OnUpsertFailure(a))
                             THEN Taint(hist, a.doc) ELSE hist
    /\ UNCHANGED <<collection, docs, storage, nextId, procs, faults, chat, now>>

\* await update_document_status(request.document_id, "completed"), then the
\* return of the success response through the finally clause.
SetCompleted(p) ==
    /\ p \in procs
    /\ att[p].pc = "set_completed"
    /\ LET a == att[p]
       IN  \E ok \in Outcomes("db") :
             IF ok
             THEN /\ docs' = update_document_status(docs, a.doc, "completed", "")
                  /\ Step(p, Returned(a, "none", FALSE, OkResp(Len(a.pts))))
                  /\ hist' = [hist EXCEPT ![a.doc].ns = Append(@, Len(a.pts))]
             ELSE /\ docs' = docs
                  /\ Step(p, Raised(a, "status_completed"))
                  /\ hist' = Taint(hist, a.doc)
    /\ UNCHANGED <<collection, storage, points, nextId, procs, faults, chat, now>>

\* Except that returns the failure response without writing the status.
ExceptWithoutWrite(p) ==
    /\ p \in procs
    /\ att[p].pc = "except"
    /\ att' = [att EXCEPT ![p] =
                 Returned(att[p], att[p].exc, FALSE, FailResp(ErrMsg(att[p].exc)))]
    /\ UNCHANGED <<collection, docs, storage, points, nextId, tempFiles, procs, faults, chat, now, hist>>

\* Except that starts the attempt again, from the download.
ExceptRetrying(p) ==
    /\ p \in procs
    /\ att[p].pc = "except"
    /\ att' = [att EXCEPT ![p] =
                 [att[p] EXCEPT !.pc = "download", !.exc = "none",
                                !.file_path = docs[att[p].doc].file_path,
                                !.doc_metadata = docs[att[p].doc]]]
    /\ UNCHANGED <<collection, docs, storage, points, nextId, tempFiles, procs, faults, chat, now, hist>>

\* except Exception as e: the status is set to error with str(e); a failure
\* of that write is swallowed; the failure response is returned.
Except(p) ==
    /\ p \in procs
    /\ att[p].pc = "except"
    /\ LET a == att[p]
       IN  \E ok \in Outcomes("db") :
             /\ docs' = IF ok
                        THEN update_document_status(docs, a.doc, "error", ErrMsg(a.exc))
                        ELSE docs
             /\ att' = [att EXCEPT ![p] =
                          Returned(a, a.exc, ~ok, FailResp(ErrMsg(a.exc)))]
    /\ UNCHANGED <<collection, storage, points, nextId, tempFiles, procs, faults, chat, now, hist>>

(***************************************************************************)
(* search_similar_chunks.                                                  *)
(***************************************************************************)
\* Python's truth value of document_ids.
Truthy(document_ids) ==
    \/ document_ids.tag = "list" /\ document_ids.ids # <<>>
    \/ document_ids.tag = "str" /\ document_ids.id # ""

\* SearchFilter with the user_id condition left out when a document_id
\* condition is present.
SearchFilterWithoutTenant(pt, user_id, document_ids) ==
    IF Truthy(document_ids)
    THEN IF document_ids.tag = "list"
         THEN pt.document_id \in Range(document_ids.ids)
         ELSE pt.document_id = document_ids.id
    ELSE pt.user_id = user_id

\* SearchFilter whose branch for several ids matches the first id only.
SearchFilterFirstId(pt, user_id, document_ids) ==
    /\ pt.user_id = user_id
    /\ IF Truthy(document_ids)
       THEN IF document_ids.tag = "list"
            THEN pt.document_id = document_ids.ids[1]
            ELSE pt.document_id = document_ids.id
       ELSE TRUE

\* Filter(must=filter_conditions) as built by search_similar_chunks, applied
\* to a point: the user_id condition always, and the document_id condition
\* of the branch taken.
SearchFilter(pt, user_id, document_ids) ==
    /\ pt.user_id = user_id
    /\ IF Truthy(document_ids)
       THEN IF document_ids.tag = "list" /\ Len(document_ids.ids) > 1
            THEN pt.document_id \in Range(document_ids.ids)
            ELSE IF document_ids.tag = "list" /\ Len(document_ids.ids) = 1
            THEN pt.document_id = document_ids.ids[1]
            ELSE pt.document_id = document_ids.id
       ELSE TRUE

\* client.search: the points passing the filter, best scores first, at most
\* limit of them.  Points of equal score come in any order, so a point may be
\* returned exactly when fewer than limit matching points score higher.
SearchHits(query, user_id, document_ids, limit) ==
    LET matching == {pt \in points : SearchFilter(pt, user_id, document_ids)}
        better(pt) == {b \in matching :
                          ScoreLess(Score(query, pt.vector), Score(query, b.vector))}
    IN  {pt \in matching : Cardinality(better(pt)) < limit}

\* One result of search_similar_chunks, as formatted from a point.
SearchResult(query, pt) ==
    [id |-> pt.id, score |-> Score(query, pt.vector),
     document_id |-> pt.document_id, document_name |-> pt.document_name,
     text |-> pt.chunk_text, chunk_index |-> pt.chunk_index]

\* search_similar_chunks: the results some execution of the call may return.
search_similar_chunks(query, user_id, document_ids, limit) ==
    {SearchResult(query, pt) : pt \in SearchHits(query, user_id, document_ids, limit)}

\* client.search: the sets of points one execution may return, the limit best
\* matching points (all of them when fewer match).
SearchHitSets(query, user_id, document_ids, limit) ==
    LET matching == {pt \in points : SearchFilter(pt, user_id, document_ids)}
        k == Min(limit, Cardinality(matching))
    IN  {S \in SUBSET matching :
            /\ Cardinality(S) = k
            /\ \A x \in S, y \in matching \ S :
                  ~ScoreLess(Score(query, x.vector), Score(query, y.vector))}

\* ByScore with the worst score first.
RECURSIVE ByScoreWorstFirst(_, _)
ByScoreWorstFirst(query, S) ==
    IF S = {} THEN {<<>>}
    ELSE LET worst == {x \in S : \A y \in S :
                         ~ScoreLess(Score(query, y.vector), Score(query, x.vector))}
         IN  UNION {{<<x>> \o rest : rest \in ByScoreWorstFirst(query, S \ {x})} :
                       x \in worst}

\* The orders client.search may return the points of S in: best score first,
\* points of equal score in any order.
RECURSIVE ByScore(_, _)
ByScore(query, S) ==
    IF S = {} THEN {<<>>}
    ELSE LET best == {x \in S : \A y \in S :
                         ~ScoreLess(Score(query, x.vector), Score(query, y.vector))}
         IN  UNION {{<<x>> \o rest : rest \in ByScore(query, S \ {x})} : x \in best}

\* create_required_indexes: every error is printed, none is raised.
create_required_indexes(c, index_user, index_doc) ==
    IF c.exists
    THEN WithIndex(WithIndex(c, "user_id", index_user), "document_id", index_doc)
    ELSE c

\* A direct call search_similar_chunks(query, user_id, document_ids, limit).
\* Positions: search_ensure, search_indexes, search_query, returned.
SearchRequest(p, query, user_id, document_ids, limit) ==
    /\ Ready(p)
    /\ att' = [att EXCEPT ![p] =
                 [IdleAtt EXCEPT !.pc = "search_ensure", !.op = "search",
                                 !.user = user_id, !.query = query,
                                 !.document_ids = document_ids, !.limit = limit]]
    /\ UNCHANGED <<collection, docs, storage, points, nextId, tempFiles, procs,
                   faults, chat, now, hist>>

\* The answer of the response for a search without results.
NotFoundAnswer == "I couldn't find relevant information"

\* SourceChunk(...) built from one result (chunk_text is the text, cut to
\* its first 500 characters).
SourceChunk(chunk) ==
    [document_id |-> chunk.document_id, document_name |-> chunk.document_name,
     chunk_text |-> chunk.text, score |-> chunk.score]

\* AskAfterSearch without the check for an empty result.
AskAfterSearchAlwaysGenerating(a, exc, similar_chunks) ==
    IF exc # "none" THEN AskFail(a, "search")
    ELSE [a EXCEPT !.pc = "ask_generate", !.results = similar_chunks,
                   !.sources = [i \in 1..Len(similar_chunks) |->
                                   SourceChunk(similar_chunks[i])]]

\* search_similar_chunks has returned similar_chunks to ask_question, or
\* raised: the response for no result, or the context and the sources are
\* built and generate_answer is called.
AskAfterSearch(a, exc, similar_chunks) ==
    IF exc # "none" THEN AskFail(a, "search")
    ELSE IF similar_chunks = <<>>
    THEN AskReturn(a, "none", FALSE, OkResp(0), NotFoundAnswer, <<>>)
    ELSE [a EXCEPT !.pc = "ask_generate", !.results = similar_chunks,
                   !.sources = [i \in 1..Len(similar_chunks) |->
                                   SourceChunk(similar_chunks[i])]]

\* The call has returned its results, or raised.
SearchReturn(a, exc, results) ==
    IF a.op \in AskOps THEN AskAfterSearch(a, exc, results)
    ELSE
    [Returned(a, exc, FALSE,
              IF exc = "none" THEN OkResp(Len(results))
              ELSE FailResp("Failed to search similar chunks"))
        EXCEPT !.query = a.query, !.document_ids = a.document_ids,
               !.limit = a.limit, !.results = results]

\* await ensure_collection_exists()
SearchEnsure(p) ==
    /\ p \in procs
    /\ att[p].pc = "search_ensure"
    /\ \E o \in EnsureOutcomes :
         LET r == ensure_collection_exists(collection, o)
         IN  /\ collection' = r.coll
             /\ att' = [att EXCEPT ![p] =
                          IF r.raised THEN SearchReturn(att[p], "search", <<>>)
                          ELSE [att[p] EXCEPT !.pc = "search_indexes"]]
    /\ UNCHANGED <<docs, storage, points, nextId, tempFiles, procs, faults, chat, now, hist>>

\* await create_required_indexes()
SearchIndexes(p) ==
    /\ p \in procs
    /\ att[p].pc = "search_indexes"
    /\ \E iu \in IndexOutcomes("user_id"), id \in IndexOutcomes("document_id") :
         collection' = create_required_indexes(collection, iu, id)
    /\ att' = [att EXCEPT ![p].pc = "search_query"]
    /\ UNCHANGED <<docs, storage, points, nextId, tempFiles, procs, faults, chat, now, hist>>

\* client.search with the filter, and the formatting of its result.
SearchQuery(p) ==
    /\ p \in procs
    /\ att[p].pc = "search_query"
    /\ LET a == att[p]
       IN  \E ok \in (IF collection.exists THEN Outcomes("qdrant") ELSE {FALSE}) :
             IF ok
             THEN \E S \in SearchHitSets(a.query, a.user, a.document_ids, a.limit) :
                  \E hits \in ByScore(a.query, S) :
                    att' = [att EXCEPT ![p] =
                       SearchReturn(a, "none",
                          [i \in 1..Len(hits) |-> SearchResult(a.query, hits[i])])]
             ELSE att' = [att EXCEPT ![p] = SearchReturn(a, "search", <<>>)]
    /\ UNCHANGED <<collection, docs, storage, points, nextId, tempFiles, procs,
                   faults, chat, now, hist>>

(***************************************************************************)
(* routes/ask.py: ask_question and ask_quick_question.                     *)
(*                                                                         *)
(* Positions: ask_verify, ask_documents, embed, search_ensure,             *)
(* search_indexes, search_query, ask_generate, ask_session, ask_save_user, *)
(* ask_save_assistant, returned.                                           *)
(***************************************************************************)
\* verify_user_owns_documents whose query has no condition on user_id.
verify_user_owns_documents_of_anyone(user_id, document_ids, db_ok) ==
    LET data == {d \in Docs : docs[d].exists /\ d \in Range(document_ids)}
    IN  db_ok /\ Cardinality(data) = Len(document_ids)

\* verify_user_owns_documents: the query selects the rows whose id is in
\* document_ids; an exception gives False.
verify_user_owns_documents(user_id, document_ids, db_ok) ==
    LET data == {d \in Docs : docs[d].exists /\ d \in Range(document_ids)}
    IN  /\ db_ok
        /\ Cardinality(data) = Len(document_ids)
        /\ \A d \in data : docs[d].user_id = user_id

\* get_document_by_ids: the ids of the rows it returns.
get_document_by_ids(document_ids, user_id) ==
    {d \in Docs : /\ docs[d].exists
                  /\ d \in Range(document_ids)
                  /\ docs[d].user_id = user_id}

\* get_single_embedding(request.question) is called.
AskEmbedding(a) ==
    [a EXCEPT !.pc = "embed", !.chunks = <<Seg(a.question, 0)>>,
              !.batch_size = 1, !.batch_i = 0, !.attempt = 1, !.calls = 1]

\* The body of ask_question is entered with the request of current_user.
ask_question(op, current_user, question, document_ids) ==
    LET a == [IdleAtt EXCEPT !.op = op, !.user = current_user,
                             !.question = question,
                             !.document_ids = document_ids]
    IN  IF Truthy(document_ids) THEN [a EXCEPT !.pc = "ask_verify"]
        ELSE AskEmbedding(a)

\* POST /ask_question by current_user.  The number of chat sessions is
\* bounded.
AskQuestion(p, current_user, question, document_ids) ==
    /\ Ready(p)
    /\ Cardinality(chat.sessions) < MaxSessions
    /\ att' = [att EXCEPT ![p] =
                 ask_question("ask", current_user, question, document_ids)]
    /\ UNCHANGED <<collection, docs, storage, points, nextId, tempFiles, procs,
                   faults, chat, now, hist>>

\* POST /ask_quick by current_user: ask_question with document_ids=[].
AskQuickQuestion(p, current_user, question) ==
    /\ Ready(p)
    /\ Cardinality(chat.sessions) < MaxSessions
    /\ att' = [att EXCEPT ![p] =
                 ask_question("ask_quick", current_user, question, DocIdList(<<>>))]
    /\ UNCHANGED <<collection, docs, storage, points, nextId, tempFiles, procs,
                   faults, chat, now, hist>>

\* verify_user_owns_documents(current_user, request.document_ids)
AskVerify(p) ==
    /\ p \in procs
    /\ att[p].pc = "ask_verify"
    /\ LET a == att[p]
       IN  \E db_ok \in Outcomes("db") :
             att' = [att EXCEPT ![p] =
                IF verify_user_owns_documents(a.user, a.document_ids.ids, db_ok)
                THEN [a EXCEPT !.pc = "ask_documents"]
                ELSE AskReturn(a, "http", FALSE, HttpError(403), "", <<>>)]
    /\ UNCHANGED <<collection, docs, storage, points, nextId, tempFiles, procs,
                   faults, chat, now, hist>>

\* get_document_by_ids, the check that every document was found and the
\* check that every document is completed.
AskDocuments(p) ==
    /\ p \in procs
    /\ att[p].pc = "ask_documents"
    /\ LET a == att[p]
           documents == get_document_by_ids(a.document_ids.ids, a.user)
       IN  \E db_ok \in Outcomes("db") :
             att' = [att EXCEPT ![p] =
                IF ~db_ok THEN AskFail(a, "documents")
                ELSE IF Cardinality(documents) # Len(a.document_ids.ids)
                THEN AskReturn(a, "http", FALSE, HttpError(404), "", <<>>)
                ELSE IF \E d \in documents : docs[d].status # "completed"
                THEN AskReturn(a, "http", FALSE, HttpError(400), "", <<>>)
                ELSE AskEmbedding(a)]
    /\ UNCHANGED <<collection, docs, storage, points, nextId, tempFiles, procs,
                   faults, chat, now, hist>>

\* What generate_answer returns for the text of the model's response.
generate_answer(text) ==
    IF text # "" THEN text ELSE "I couldn't generate an answer"

\* answer = await generate_answer(request.question, context_chunks)
AskGenerate(p) ==
    /\ p \in procs
    /\ att[p].pc = "ask_generate"
    /\ LET a == [att[p] EXCEPT !.llm_calls = @ + 1]
       IN  \E ok \in Outcomes("llm"), text \in {"generated", ""} :
             att' = [att EXCEPT ![p] =
                IF ok THEN [a EXCEPT !.pc = "ask_session",
                                     !.answer = generate_answer(text)]
                ELSE AskFail(a, "generate")]
    /\ UNCHANGED <<collection, docs, storage, points, nextId, tempFiles, procs,
                   faults, chat, now, hist>>

\* The success response of ask_question with the answer and the sources.
AskAnswered(a, swallowed) ==
    AskReturn(a, "none", swallowed, OkResp(Len(a.sources)), a.answer, a.sources)

\* session_id = await create_chat_session(current_user, session_title); a
\* failure is printed and the response is returned.
AskSession(p) ==
    /\ p \in procs
    /\ att[p].pc = "ask_session"
    /\ LET a == att[p]
           id == Cardinality(chat.sessions) + 1
       IN  \E ok \in Outcomes("db") :
             IF ok
             THEN /\ chat' = [chat EXCEPT !.sessions = @ \cup
                                 {[id |-> id, user_id |-> a.user,
                                   title |-> a.question]}]
                  /\ att' = [att EXCEPT ![p] =
                               [a EXCEPT !.pc = "ask_save_user", !.session_id = id]]
             ELSE /\ chat' = chat
                  /\ att' = [att EXCEPT ![p] = AskAnswered(a, TRUE)]
    /\ UNCHANGED <<collection, docs, storage, points, nextId, tempFiles, procs,
                   faults, now, hist>>

\* One row of table "messages".
Message(session_id, user_id, content, role, sources) ==
    [session_id |-> session_id, user_id |-> user_id, content |-> content,
     role |-> role, sources |-> sources]

\* await save_message(session_id, current_user, request.question, "user")
AskSaveUser(p) ==
    /\ p \in procs
    /\ att[p].pc = "ask_save_user"
    /\ LET a == att[p]
       IN  \E ok \in Outcomes("db") :
             IF ok
             THEN /\ chat' = [chat EXCEPT !.messages = @ \cup
                                 {Message(a.session_id, a.user, a.question,
                                          "user", <<>>)}]
                  /\ att' = [att EXCEPT ![p].pc = "ask_save_assistant"]
             ELSE /\ chat' = chat
                  /\ att' = [att EXCEPT ![p] = AskAnswered(a, TRUE)]
    /\ UNCHANGED <<collection, docs, storage, points, nextId, tempFiles, procs,
                   faults, now, hist>>

\* await save_message(session_id, current_user, answer, "assistant",
\* source_refs), then the response is returned.
AskSaveAssistant(p) ==
    /\ p \in procs
    /\ att[p].pc = "ask_save_assistant"
    /\ LET a == att[p]
           source_refs == [i \in 1..Len(a.sources) |-> a.sources[i].document_name]
       IN  \E ok \in Outcomes("db") :
             /\ chat' = IF ok
                        THEN [chat EXCEPT !.messages = @ \cup
                                {Message(a.session_id, a.user, a.answer,
                                         "assistant", source_refs)}]
                        ELSE chat
             /\ att' = [att EXCEPT ![p] = AskAnswered(a, ~ok)]
    /\ UNCHANGED <<collection, docs, storage, points, nextId, tempFiles, procs,
                   faults, now, hist>>

(***************************************************************************)
(* delete_document_vectors.                                                *)
(***************************************************************************)
\* client.scroll raises when the collection does not exist.
ScrollOutcomes == IF collection.exists THEN Outcomes("qdrant") ELSE {FALSE}

\* ScrollResults of a scan that follows the pages to the end.
ScrollResultsUncapped(document_id, user_id) ==
    {{pt \in points : pt.document_id = document_id /\ pt.user_id = user_id}}

\* The points client.scroll may return for the filter on document_id and
\* user_id: all matching points, or any limit of them when there are more.
ScrollResults(document_id, user_id) ==
    LET matching == {pt \in points : /\ pt.document_id = document_id
                                     /\ pt.user_id = user_id}
    IN  {found \in SUBSET matching :
            Cardinality(found) = Min(ScrollLimit, Cardinality(matching))}

\* The history of a document after a delete that left `left` of its points.
AfterDelete(h, d, found, left) ==
    IF found = {} THEN h
    ELSE [h EXCEPT ![d] = [ns |-> <<>>, tainted |-> left # {}]]

\* What a call of delete_document_vectors does to the store and returns:
\* client.scroll (scroll_ok: it did not raise), then client.delete of the ids
\* found when there are any (delete_ok), then len(point_ids).  reqs are the
\* requests the call sent to the vector store.
delete_document_vectors(document_id, user_id, found, scroll_ok, delete_ok) ==
    IF ~scroll_ok
    THEN [ok |-> FALSE, count |-> 0, left |-> points, reqs |-> <<"scroll">>]
    ELSE IF found = {}
    THEN [ok |-> TRUE, count |-> 0, left |-> points, reqs |-> <<"scroll">>]
    ELSE IF ~delete_ok
    THEN [ok |-> FALSE, count |-> 0, left |-> points,
          reqs |-> <<"scroll", "delete">>]
    ELSE [ok |-> TRUE, count |-> Cardinality(found), left |-> points \ found,
          reqs |-> <<"scroll", "delete">>]

DeleteDocumentVectors(p, d, u) ==
    /\ Ready(p)
    /\ LET a == [IdleAtt EXCEPT !.op = "delete_vectors", !.user = u, !.doc = d]
       IN  \E scroll_ok \in ScrollOutcomes, delete_ok \in Outcomes("qdrant") :
           \E found \in ScrollResults(d, u) :
             LET r == delete_document_vectors(d, u, found, scroll_ok, delete_ok)
                 ret == IF r.ok
                        THEN Returned(a, "none", FALSE, OkResp(r.count))
                        ELSE Returned(a, "delete", FALSE,
                                      FailResp("Failed to delete document vectors"))
             IN  /\ points' = r.left
                 /\ att' = [att EXCEPT ![p] = [ret EXCEPT !.reqs = r.reqs]]
                 /\ hist' = IF r.ok
                            THEN AfterDelete(hist, d, found, DocPoints(d) \ found)
                            ELSE hist
    /\ UNCHANGED <<collection, docs, storage, nextId, tempFiles, procs, faults, chat, now>>

(***************************************************************************)
(* routes/documents.py: delete_document.                                   *)
(*                                                                         *)
(* Positions: del_vectors, del_file, del_metadata, returned.               *)
(* delete_multiple_documents: dm_verify, then for every doc_id dm_metadata *)
(* and the three positions of delete_document, returned.                   *)
(***************************************************************************)
\* DELETE /documents/{document_id} by current_user: the ownership and
\* metadata checks.
DeleteDocument(p, u, d) ==
    /\ Ready(p)
    /\ \E db_ok \in Outcomes("db"), meta_ok \in Outcomes("db") :
         LET a == [IdleAtt EXCEPT !.op = "delete_document", !.user = u, !.doc = d]
             document == get_document_metadata(d, u)
         IN  att' = [att EXCEPT ![p] =
                EntryChecks(a, db_ok, meta_ok,
                    Returned(a, "metadata", FALSE, FailResp(ErrMsg("metadata"))),
                    [a EXCEPT !.pc = "del_vectors", !.doc_metadata = document,
                              !.file_path = document.file_path])]
    /\ UNCHANGED <<collection, docs, storage, points, nextId, tempFiles, procs, faults, chat, now, hist>>

\* The response of delete_multiple_documents: success is
\* len(deleted_docs) > 0; the two lists and the total are kept.
MultiReturn(a) ==
    [Returned(a, "none", FALSE,
              IF a.deleted_docs # <<>> THEN OkResp(a.deleted_vectors_count)
              ELSE FailResp(""))
        EXCEPT !.document_ids = a.document_ids,
               !.deleted_docs = a.deleted_docs, !.failed_docs = a.failed_docs,
               !.deleted_vectors_count = a.deleted_vectors_count,
               !.warnings = a.warnings]

\* The loop of delete_multiple_documents goes to its next doc_id, or the
\* response is returned.
NextOfBatch(a) ==
    IF a.loop_i < Len(a.document_ids.ids)
    THEN [a EXCEPT !.pc = "dm_metadata", !.loop_i = a.loop_i + 1,
                   !.doc = a.document_ids.ids[a.loop_i + 1],
                   !.doc_metadata = NoMeta, !.file_path = "", !.reqs = <<>>]
    ELSE MultiReturn(a)

\* FailedOne that goes to the next doc_id without recording the failure.
FailedOneUnrecorded(a, error) == NextOfBatch(a)

\* failed_docs.append({"id": doc_id, "error": ...}), then the next doc_id.
FailedOne(a, error) ==
    NextOfBatch([a EXCEPT !.failed_docs =
                              Append(@, [id |-> a.doc, error |-> error])])

\* deleted_docs.append({"id": doc_id, ...}), then the next doc_id.
DeletedOne(a) ==
    NextOfBatch([a EXCEPT !.deleted_docs = Append(@, a.doc)])

\* DELETE /documents with body document_ids by current_user: 400 for an
\* empty list.
DeleteMultipleDocuments(p, u, document_ids) ==
    /\ Ready(p)
    /\ LET a == [IdleAtt EXCEPT !.op = "delete_multiple", !.user = u,
                                !.document_ids = DocIdList(document_ids)]
       IN  att' = [att EXCEPT ![p] =
              IF document_ids = <<>>
              THEN [Returned(a, "none", FALSE, HttpError(400))
                       EXCEPT !.document_ids = a.document_ids]
              ELSE [a EXCEPT !.pc = "dm_verify"]]
    /\ UNCHANGED <<collection, docs, storage, points, nextId, tempFiles, procs,
                   faults, chat, now, hist>>

\* verify_user_owns_documents(current_user, document_ids): 403 for the whole
\* request unless it gives True.
DeleteMultipleVerify(p) ==
    /\ p \in procs
    /\ att[p].pc = "dm_verify"
    /\ LET a == att[p]
       IN  \E db_ok \in Outcomes("db") :
             att' = [att EXCEPT ![p] =
                IF verify_user_owns_documents(a.user, a.document_ids.ids, db_ok)
                THEN NextOfBatch(a)
                ELSE [Returned(a, "none", FALSE, HttpError(403))
                         EXCEPT !.document_ids = a.document_ids]]
    /\ UNCHANGED <<collection, docs, storage, points, nextId, tempFiles, procs,
                   faults, chat, now, hist>>

\* document = await get_document_metadata(doc_id, current_user) in the try of
\* the loop body.
DeleteMultipleMetadata(p) ==
    /\ p \in procs
    /\ att[p].pc = "dm_metadata"
    /\ LET a == att[p]
           document == get_document_metadata(a.doc, a.user)
       IN  \E meta_ok \in Outcomes("db") :
             att' = [att EXCEPT ![p] =
                IF ~meta_ok THEN FailedOne(a, ErrMsg("metadata"))
                ELSE IF ~document.exists THEN FailedOne(a, "Document not found")
                ELSE [a EXCEPT !.pc = "del_vectors", !.doc_metadata = document,
                               !.file_path = document.file_path]]
    /\ UNCHANGED <<collection, docs, storage, points, nextId, tempFiles, procs,
                   faults, chat, now, hist>>

\* deleted_vectors_count = await delete_document_vectors(...) inside its own
\* try: an exception is printed as a warning and the count stays 0.  In
\* delete_multiple_documents the count is added to total_vectors_deleted.
DeleteVectors(p) ==
    /\ p \in procs
    /\ att[p].pc = "del_vectors"
    /\ LET a == att[p]
       IN  \E scroll_ok \in ScrollOutcomes, delete_ok \in Outcomes("qdrant") :
           \E found \in ScrollResults(a.doc, a.user) :
             LET r == delete_document_vectors(a.doc, a.user, found,
                                              scroll_ok, delete_ok)
             IN  /\ points' = r.left
                 /\ att' = [att EXCEPT ![p] =
                        [a EXCEPT !.pc = "del_file", !.reqs = r.reqs,
                                  !.deleted_vectors_count =
                                      IF a.op = "delete_multiple"
                                      THEN @ + r.count ELSE r.count,
                                  !.warnings = IF r.ok THEN @ ELSE @ \cup {"vectors"}]]
                 /\ hist' = IF r.ok
                            THEN AfterDelete(hist, a.doc, found, DocPoints(a.doc) \ found)
                            ELSE hist
    /\ UNCHANGED <<collection, docs, storage, nextId, tempFiles, procs, faults, chat, now>>

\* delete_file_from_storage: the bucket without the file at that path.
delete_file_from_storage(bucket, file_path) ==
    [f \in Paths |-> IF f = file_path THEN NoFile ELSE bucket[f]]

\* DeleteFile without the try around the call: an exception of
\* delete_file_from_storage ends the deletion of the document.
DeleteFileAborting(p) ==
    /\ p \in procs
    /\ att[p].pc = "del_file"
    /\ LET a == att[p]
       IN  \E ok \in Outcomes("storage") :
             /\ storage' = IF ok THEN delete_file_from_storage(storage, a.file_path)
                                 ELSE storage
             /\ att' = [att EXCEPT ![p] =
                    IF ok THEN [a EXCEPT !.pc = "del_metadata"]
                    ELSE IF a.op = "delete_multiple"
                    THEN FailedOne(a, "Failed to delete file from storage")
                    ELSE Returned(a, "delete_file", FALSE,
                                  FailResp("Failed to delete file from storage"))]
    /\ UNCHANGED <<collection, docs, points, nextId, tempFiles, procs, faults, chat, now, hist>>

\* await delete_file_from_storage(document["file_path"]) inside its own try:
\* an exception is printed as a warning.
DeleteFile(p) ==
    /\ p \in procs
    /\ att[p].pc = "del_file"
    /\ LET a == att[p]
       IN  \E ok \in Outcomes("storage") :
             /\ storage' = IF ok THEN delete_file_from_storage(storage, a.file_path)
                                 ELSE storage
             /\ att' = [att EXCEPT ![p] =
                    [a EXCEPT !.pc = "del_metadata",
                              !.warnings = IF ok THEN @ ELSE @ \cup {"file"}]]
    /\ UNCHANGED <<collection, docs, points, nextId, tempFiles, procs, faults, chat, now, hist>>

\* delete_document_metadata: the table without the row of that id and
\* user_id.
delete_document_metadata(table, document_id, user_id) ==
    [d \in Docs |->
        IF d = document_id /\ table[d].exists /\ table[d].user_id = user_id
        THEN NoMeta
        ELSE table[d]]

\* The response of delete_document: what the handler returned and what it
\* swallowed on the way.
DeleteReturn(a, exc, resp) ==
    [Returned(a, exc, FALSE, resp) EXCEPT !.file_path = a.file_path,
                                          !.warnings = a.warnings]

\* await delete_document_metadata(document_id, current_user), then the
\* success response; an exception goes to the handler of the outer try.
DeleteMetadata(p) ==
    /\ p \in procs
    /\ att[p].pc = "del_metadata"
    /\ LET a == att[p]
       IN  \E ok \in Outcomes("db") :
             IF ok
             THEN /\ docs' = delete_document_metadata(docs, a.doc, a.user)
                  /\ att' = [att EXCEPT ![p] =
                         IF a.op = "delete_multiple" THEN DeletedOne(a)
                         ELSE DeleteReturn(a, "none",
                                           OkResp(a.deleted_vectors_count))]
             ELSE /\ docs' = docs
                  /\ att' = [att EXCEPT ![p] =
                         IF a.op = "delete_multiple"
                         THEN FailedOne(a, "Failed to delete document metadata")
                         ELSE DeleteReturn(a, "delete_metadata",
                                  FailResp("Failed to delete document metadata"))]
    /\ UNCHANGED <<collection, storage, points, nextId, tempFiles, procs, faults, chat, now, hist>>

(***************************************************************************)
(* main.py: cleanup_task, run by the scheduler every day or by             *)
(* manual_cleanup; services/supabase.py: cleanup_old_documents;            *)
(* services/qdrant.py: delete_old_vectors.  Time is counted in days.       *)
(*                                                                         *)
(* Positions: cl_list (the select of cleanup_old_documents), then for      *)
(* every old document cl_file and cl_metadata, then cl_vectors             *)
(* (delete_old_vectors), returned.                                         *)
(***************************************************************************)
CleanupOps == {"cleanup_task", "manual_cleanup"}

\* The payload of the point has no created_at.
NoCreatedAt == -1

\* CutoffDate that is a day later.
CutoffDateLate(days_old) == now - days_old + 1

\* cutoff_date = datetime.utcnow() - timedelta(days=days_old).
CutoffDate(days_old) == now - days_old

\* The rows of select("*").lt("created_at", cutoff_date).
OldDocuments(cutoff_date) ==
    {d \in Docs : docs[d].exists /\ docs[d].created_at < cutoff_date}

\* The orders in which a query may return the rows.
Orders(S) ==
    {s \in [1..Cardinality(S) -> S] :
        \A i, j \in 1..Cardinality(S) : s[i] = s[j] => i = j}

\* cleanup_task returns: it has caught and printed whatever was raised.
\* manual_cleanup then answers success.
CleanupReturn(a, exc) ==
    [Returned(a, exc, exc # "none",
              IF a.op = "manual_cleanup" THEN OkResp(0) ELSE NoResp)
        EXCEPT !.reqs = a.reqs, !.deleted_docs = a.deleted_docs,
               !.failed_docs = a.failed_docs,
               !.deleted_vectors_count = a.deleted_vectors_count]

\* The scheduler runs cleanup_task.
CleanupTask(p) ==
    /\ Ready(p)
    /\ att' = [att EXCEPT ![p] =
                  [IdleAtt EXCEPT !.op = "cleanup_task", !.pc = "cl_list"]]
    /\ UNCHANGED <<collection, docs, storage, points, nextId, tempFiles, procs,
                   faults, chat, now, hist>>

\* POST /api/v1/cleanup: await cleanup_task().
ManualCleanup(p) ==
    /\ Ready(p)
    /\ att' = [att EXCEPT ![p] =
                  [IdleAtt EXCEPT !.op = "manual_cleanup", !.pc = "cl_list"]]
    /\ UNCHANGED <<collection, docs, storage, points, nextId, tempFiles, procs,
                   faults, chat, now, hist>>

\* The loop of cleanup_old_documents goes to its next doc; after the last
\* one cleanup_old_documents returns and cleanup_task calls
\* delete_old_vectors.
NextOfSweep(a) ==
    IF a.loop_i < Len(a.results)
    THEN [a EXCEPT !.pc = "cl_file", !.loop_i = a.loop_i + 1,
                   !.doc = a.results[a.loop_i + 1].id,
                   !.doc_metadata = a.results[a.loop_i + 1].row,
                   !.file_path = a.results[a.loop_i + 1].row.file_path]
    ELSE [a EXCEPT !.pc = "cl_vectors"]

\* except Exception as e: print(...); continue.
SweepFailedOne(a, error) ==
    NextOfSweep([a EXCEPT !.failed_docs =
                              Append(@, [id |-> a.doc, error |-> error])])

\* cleanup_old_documents(days_old=3): the select of the old documents.  An
\* exception of it is raised to cleanup_task, which prints it and returns.
CleanupList(p) ==
    /\ p \in procs
    /\ att[p].pc = "cl_list"
    /\ LET a == att[p]
       IN  \E ok \in Outcomes("db") :
             IF ok
             THEN \E order \in Orders(OldDocuments(CutoffDate(RetentionDays))) :
                    att' = [att EXCEPT ![p] =
                       NextOfSweep([a EXCEPT
                           !.results = [i \in 1..Len(order) |->
                                           [id |-> order[i], row |-> docs[order[i]]]],
                           !.loop_i = 0])]
             ELSE att' = [att EXCEPT ![p] = CleanupReturn(a, "cleanup_documents")]
    /\ UNCHANGED <<collection, docs, storage, points, nextId, tempFiles, procs,
                   faults, chat, now, hist>>

\* await delete_file_from_storage(doc["file_path"]) in the try of the loop
\* body: an exception skips the rest of the body.
CleanupFile(p) ==
    /\ p \in procs
    /\ att[p].pc = "cl_file"
    /\ LET a == att[p]
       IN  \E ok \in Outcomes("storage") :
             /\ storage' = IF ok THEN delete_file_from_storage(storage, a.file_path)
                                 ELSE storage
             /\ att' = [att EXCEPT ![p] =
                    IF ok THEN [a EXCEPT !.pc = "cl_metadata"]
                    ELSE SweepFailedOne(a, "Failed to delete file from storage")]
    /\ UNCHANGED <<collection, docs, points, nextId, tempFiles, procs, faults,
                   chat, now, hist>>

\* await delete_document_metadata(doc["id"], doc["user_id"]);
\* deleted_count += 1.
CleanupMetadata(p) ==
    /\ p \in procs
    /\ att[p].pc = "cl_metadata"
    /\ LET a == att[p]
       IN  \E ok \in Outcomes("db") :
             IF ok
             THEN /\ docs' = delete_document_metadata(docs, a.doc,
                                                      a.doc_metadata.user_id)
                  /\ att' = [att EXCEPT ![p] =
                         NextOfSweep([a EXCEPT !.deleted_docs = Append(@, a.doc)])]
             ELSE /\ docs' = docs
                  /\ att' = [att EXCEPT ![p] =
                         SweepFailedOne(a, "Failed to delete document metadata")]
    /\ UNCHANGED <<collection, storage, points, nextId, tempFiles, procs, faults,
                   chat, now, hist>>

\* The points client.scroll may return without a filter: all points, or any
\* limit of them when there are more.
ScrollPages ==
    {found \in SUBSET points :
        Cardinality(found) = Min(ScrollLimit, Cardinality(points))}

\* What a call of delete_old_vectors does to the store and returns:
\* client.scroll, then client.delete of the points found whose created_at is
\* there and before the cutoff, when there are any, then their number.
delete_old_vectors(found, cutoff_date, scroll_ok, delete_ok) ==
    LET old_point_ids == {pt \in found : /\ pt.created_at # NoCreatedAt
                                         /\ pt.created_at < cutoff_date}
    IN  IF ~scroll_ok
        THEN [ok |-> FALSE, count |-> 0, left |-> points, reqs |-> <<"scroll">>]
        ELSE IF old_point_ids = {}
        THEN [ok |-> TRUE, count |-> 0, left |-> points, reqs |-> <<"scroll">>]
        ELSE IF ~delete_ok
        THEN [ok |-> FALSE, count |-> 0, left |-> points,
              reqs |-> <<"scroll", "delete">>]
        ELSE [ok |-> TRUE, count |-> Cardinality(old_point_ids),
              left |-> points \ old_point_ids, reqs |-> <<"scroll", "delete">>]

\* deleted_vectors = await delete_old_vectors(days_old=3) in cleanup_task,
\* which then returns; an exception is printed by cleanup_task.
DeleteOldVectors(p) ==
    /\ p \in procs
    /\ att[p].pc = "cl_vectors"
    /\ LET a == att[p]
       IN  \E scroll_ok \in ScrollOutcomes, delete_ok \in Outcomes("qdrant") :
           \E found \in ScrollPages :
             LET r == delete_old_vectors(found, CutoffDate(RetentionDays),
                                         scroll_ok, delete_ok)
             IN  /\ points' = r.left
                 /\ att' = [att EXCEPT ![p] =
                        CleanupReturn([a EXCEPT !.reqs = r.reqs,
                                                !.deleted_vectors_count = r.count],
                                      IF r.ok THEN "none" ELSE "old_vectors")]
                 /\ hist' = [d \in Docs |->
                               IF DocPoints(d) \cap (points \ r.left) = {}
                               THEN hist[d]
                               ELSE [ns |-> <<>>,
                                     tainted |-> DocPoints(d) \cap r.left # {}]]
    /\ UNCHANGED <<collection, docs, storage, nextId, tempFiles, procs, faults,
                   chat, now>>

(***************************************************************************)
(* utils/auth.py: the dependency get_current_user of the endpoints, on     *)
(* security = HTTPBearer().  In the handlers above current_user is the     *)
(* user of a verified token; here are the requests that have none.         *)
(***************************************************************************)
\* What a request that is not of a user carries: no Authorization header
\* with a bearer credential, or a token that auth.get_user does not verify.
BadCredentials == {"absent", "invalid"}

\* Endpoints declared with current_user: str = Depends(get_current_user).
AuthEndpoints == {"upload_document", "ask_question", "get_documents"}

\* AuthError of security = HTTPBearer(auto_error=False): the missing
\* credential reaches get_current_user, whose except answers 401.
AuthErrorOptional(credentials) == HttpError(401)

\* HTTPBearer() rejects a request without bearer credential with 403;
\* get_current_user answers every failure to verify the token with 401.
AuthError(credentials) ==
    IF credentials = "absent" THEN HttpError(403) ELSE HttpError(401)

\* A request to the endpoint with these credentials: the dependency raises
\* and the body of the handler does not run.
Unauthenticated(p, endpoint, credentials) ==
    /\ Ready(p)
    /\ att' = [att EXCEPT ![p] =
                  [Returned([IdleAtt EXCEPT !.op = endpoint], "none", FALSE,
                            AuthError(credentials))
                      EXCEPT !.credentials = credentials]]
    /\ UNCHANGED <<collection, docs, storage, points, nextId, tempFiles, procs,
                   faults, chat, now, hist>>

(***************************************************************************)
(* The system.                                                             *)
(***************************************************************************)
\* The task of a request ends with the response.
Finish(p) ==
    /\ p \in procs
    /\ att[p].pc = "returned"
    /\ att' = [att EXCEPT ![p] = IdleAtt]
    /\ UNCHANGED <<collection, docs, storage, points, nextId, tempFiles, procs, faults, chat, now, hist>>

Next ==
    \E p \in Procs :
        \/ \E u \in Users, d \in Docs, path \in Paths : UploadRequest(p, u, d, path)
        \/ \E u \in Users, d \in Docs : ReprocessDocument(p, u, d)
        \/ UploadEntry(p)
        \/ SetProcessing(p)
        \/ Download(p)
        \/ EmbedRequest(p)
        \/ EnsureCollection(p)
        \/ EnsureCollectionExists(p)
        \/ UpsertBatch(p)
        \/ SetCompleted(p)
        \/ Except(p)
        \/ \E u \in Users, d \in Docs : DeleteDocumentVectors(p, d, u)
        \/ \E u \in Users, d \in Docs : DeleteDocument(p, u, d)
        \/ DeleteVectors(p)
        \/ DeleteFile(p)
        \/ DeleteMetadata(p)
        \/ Finish(p)

Spec == Init /\ [][Next]_vars

SpecStore == InitStore /\ [][Next]_vars

\* The points a completed ingestion of the text stores for the document,
\* the ids from first_id on.
IngestedPoints(d, u, name, text, first_id) ==
    Range(BuildPoints([IdleAtt EXCEPT
                          !.doc = d, !.user = u,
                          !.doc_metadata = InitDoc(u, name, "", "txt"),
                          !.chunks = chunk_text(text),
                          !.all_embeddings =
                              [i \in 1..Len(chunk_text(text)) |->
                                   EmbeddingOf(chunk_text(text)[i].text)]],
                      first_id))

\* What has been ingested of a document: nothing yet, one chunk or three.
SearchTexts == {<<>>, ShortText, GoodText}

SearchDoc(u, n, path, text) ==
    [InitDoc(u, n, path, "txt") EXCEPT
        !.status = IF text = <<>> THEN "received" ELSE "completed"]

\* Two documents, the first of u1 and the second of either user, each not
\* yet ingested or ingested once; the collection is there (with whatever
\* indexes the calls that created it managed to build) once a document has
\* been ingested.
InitSearch ==
    /\ chat = NoChat
    /\ now = 0
    /\ tempFiles = {}
    /\ att = [p \in Procs |-> IdleAtt]
    /\ procs = {1}
    /\ faults = {"qdrant"}
    /\ \E t1 \in SearchTexts, t2 \in SearchTexts, u \in Users :
         LET n1 == Len(chunk_text(t1))
             n2 == Len(chunk_text(t2))
         IN  /\ docs = [d \in Docs |-> IF d = "d1"
                                       THEN SearchDoc("u1", "n1", "p1", t1)
                                       ELSE SearchDoc(u, "n2", "p2", t2)]
             /\ storage = [f \in Paths |-> IF f = "p1" THEN File(t1) ELSE File(t2)]
             /\ points = IngestedPoints("d1", "u1", "n1", t1, 1)
                            \cup IngestedPoints("d2", u, "n2", t2, 1 + n1)
             /\ nextId = 1 + n1 + n2
             /\ hist = [d \in Docs |->
                          [ns |-> IF d = "d1"
                                  THEN (IF n1 = 0 THEN <<>> ELSE <<n1>>)
                                  ELSE (IF n2 = 0 THEN <<>> ELSE <<n2>>),
                           tainted |-> FALSE]]
             /\ collection \in
                   {[exists |-> TRUE, indexes |-> ix] :
                       ix \in SUBSET {"user_id", "document_id"}}
                   \cup (IF n1 + n2 = 0 THEN {NoCollection} ELSE {})

\* The values of document_ids and of limit the calls are made with; 5 is the
\* limit routes/ask.py passes.
SearchDocIds ==
    {NoDocIds, DocIdList(<<>>), DocIdList(<<"d1">>), DocIdList(<<"d2">>),
     DocIdList(<<"d1", "d2">>), DocIdList(<<"d2", "d1">>), DocIdString("d1")}

SearchLimits == {1, 2, 5}

\* Direct calls of search_similar_chunks, one after the other.
NextSearch ==
    \E p \in Procs :
        \/ \E q \in QueryVectors, u \in Users, dids \in SearchDocIds,
              limit \in SearchLimits : SearchRequest(p, q, u, dids, limit)
        \/ SearchEnsure(p)
        \/ SearchIndexes(p)
        \/ SearchQuery(p)
        \/ Finish(p)

SpecSearch == InitSearch /\ [][NextSearch]_vars

\* What the stores may hold of a document whose file has the given text:
\* nothing but the row (received), the row at any status of an ingestion
\* with the points of an earlier or of the current attempt, or the points
\* alone, left by a delete_document whose vector deletion failed.
AskDocStates(text) ==
    {[exists |-> TRUE, status |-> "received", text |-> <<>>],
     [exists |-> FALSE, status |-> "", text |-> text]}
    \cup {[exists |-> TRUE, status |-> st, text |-> text] :
             st \in {"processing", "completed", "error"}}

AskDoc(u, n, path, st) ==
    IF st.exists
    THEN [InitDoc(u, n, path, "txt") EXCEPT
             !.status = st.status,
             !.error_message = IF st.status = "error" THEN ErrMsg("store") ELSE ""]
    ELSE NoMeta

\* Two documents, the first of u1 and the second of either user, in any of
\* these states; every service may fail.
InitAsk ==
    /\ chat = NoChat
    /\ now = 0
    /\ tempFiles = {}
    /\ att = [p \in Procs |-> IdleAtt]
    /\ procs = {1}
    /\ faults = Services
    /\ collection = FullCollection
    /\ \E s1 \in AskDocStates(GoodText), s2 \in AskDocStates(ShortText), u \in Users :
         LET n1 == Len(chunk_text(s1.text))
             n2 == Len(chunk_text(s2.text))
         IN  /\ docs = [d \in Docs |-> IF d = "d1" THEN AskDoc("u1", "n1", "p1", s1)
                                       ELSE AskDoc(u, "n2", "p2", s2)]
             /\ storage = [f \in Paths |->
                             IF f = "p1"
                             THEN (IF s1.exists THEN File(GoodText) ELSE NoFile)
                             ELSE (IF s2.exists THEN File(ShortText) ELSE NoFile)]
             /\ points = IngestedPoints("d1", "u1", "n1", s1.text, 1)
                            \cup IngestedPoints("d2", u, "n2", s2.text, 1 + n1)
             /\ nextId = 1 + n1 + n2
             /\ hist = [d \in Docs |->
                          [ns |-> <<>>,
                           tainted |-> IF d = "d1" THEN n1 > 0 ELSE n2 > 0]]

\* The questions asked and the values of document_ids they are asked with.
Questions == {"a", "c"}

AskDocIds ==
    {DocIdList(<<>>), DocIdList(<<"d1">>), DocIdList(<<"d2">>),
     DocIdList(<<"d1", "d2">>), DocIdList(<<"d1", "d1">>)}

\* Requests to the two endpoints of routes/ask.py, one after the other.
NextAsk ==
    \E p \in Procs :
        \/ \E u \in Users, q \in Questions, dids \in AskDocIds :
              AskQuestion(p, u, q, dids)
        \/ \E u \in Users, q \in Questions : AskQuickQuestion(p, u, q)
        \/ AskVerify(p)
        \/ AskDocuments(p)
        \/ EmbedRequest(p)
        \/ SearchEnsure(p)
        \/ SearchIndexes(p)
        \/ SearchQuery(p)
        \/ AskGenerate(p)
        \/ AskSession(p)
        \/ AskSaveUser(p)
        \/ AskSaveAssistant(p)
        \/ Finish(p)

SpecAsk == InitAsk /\ [][NextAsk]_vars

\* The requests of NextAsk, and requests that are not of a user.
NextAuth ==
    \/ NextAsk
    \/ \E p \in Procs, endpoint \in AuthEndpoints, credentials \in BadCredentials :
          Unauthenticated(p, endpoint, credentials)

SpecAuth == InitAsk /\ [][NextAuth]_vars

\* The chunk texts and the embeddings the direct calls of
\* store_document_chunks are made with, one chunk a call: any text with any
\* embedding.
StoreTexts == {"a", "b"}
StoreVectors == { <<1, 0>>, <<2, 0>>, <<0, 1>> }
\* The first tenant's document gets any text with any of the embeddings, the
\* second tenant's document one text with one embedding.
StoreInputs ==
    {[doc |-> "d1", text |-> t, vector |-> v] : t \in StoreTexts, v \in StoreVectors}
    \cup {[doc |-> "d2", text |-> "a", vector |-> <<1, 0>>]}

\* The vectors searched with.
StoreQueries == { <<1, 0>>, <<0, 1>> }

\* Two tenants with a document each and an empty store; direct calls of
\* store_document_chunks for a document and its owner, and direct calls of
\* search_similar_chunks without a document filter.
NextRoundTrip ==
    \E p \in Procs :
        \/ \E c \in StoreInputs :
              StoreDocumentChunks(p, c.doc, docs[c.doc].user_id, docs[c.doc].name,
                                  <<Seg(c.text, 60)>>, <<c.vector>>)
        \/ EnsureCollection(p)
        \/ UpsertBatch(p)
        \/ \E q \in StoreQueries, u \in Users, limit \in {1, AskLimit} :
              SearchRequest(p, q, u, NoDocIds, limit)
        \/ SearchEnsure(p)
        \/ SearchIndexes(p)
        \/ SearchQuery(p)
        \/ Finish(p)

SpecRoundTrip == InitStore /\ [][NextRoundTrip]_vars

\* Two ingested documents, the first of u1 and the second of either user;
\* the metadata store, the file storage and the vector store may fail.
InitDelete ==
    /\ chat = NoChat
    /\ now = 0
    /\ tempFiles = {}
    /\ att = [p \in Procs |-> IdleAtt]
    /\ procs = {1}
    /\ faults = {"db", "storage", "qdrant"}
    /\ collection = FullCollection
    /\ \E u \in Users :
         /\ docs = [d \in Docs |-> IF d = "d1"
                                   THEN SearchDoc("u1", "n1", "p1", GoodText)
                                   ELSE SearchDoc(u, "n2", "p2", ShortText)]
         /\ points = IngestedPoints("d1", "u1", "n1", GoodText, 1)
                        \cup IngestedPoints("d2", u, "n2", ShortText, 4)
    /\ storage = [f \in Paths |-> IF f = "p1" THEN File(GoodText)
                                              ELSE File(ShortText)]
    /\ nextId = 5
    /\ hist = [d \in Docs |-> [ns |-> IF d = "d1" THEN <<3>> ELSE <<1>>,
                               tainted |-> FALSE]]

\* The lists of ids delete_multiple_documents is called with.
DeleteIdLists ==
    {<<>>, <<"d1">>, <<"d2">>, <<"d1", "d2">>, <<"d2", "d1">>, <<"d1", "d1">>}

\* Requests to the two delete endpoints of routes/documents.py, one after
\* the other.
NextDelete ==
    \E p \in Procs :
        \/ \E u \in Users, d \in Docs : DeleteDocument(p, u, d)
        \/ \E u \in Users, ids \in DeleteIdLists : DeleteMultipleDocuments(p, u, ids)
        \/ DeleteMultipleVerify(p)
        \/ DeleteMultipleMetadata(p)
        \/ DeleteVectors(p)
        \/ DeleteFile(p)
        \/ DeleteMetadata(p)
        \/ Finish(p)

SpecDelete == InitDelete /\ [][NextDelete]_vars

\* The days on which the documents and the points of a sweep were created:
\* before the cutoff and on the cutoff.
SweepDays == {1, 2}

\* The points, created on that day.
CreatedOn(pts, day) == {[pt EXCEPT !.created_at = day] : pt \in pts}

\* The row, created on that day, or no row.
SweepDoc(u, n, path, text, day, there) ==
    IF there THEN [SearchDoc(u, n, path, text) EXCEPT !.created_at = day]
    ELSE NoMeta

\* Day 5, the cutoff is day 2.  Two ingested documents, the first of u1 and
\* the second of either user, each created before or on the cutoff, its
\* points on the same day or later; the row of the second may be gone, its
\* points left behind; the point of the second may have been stored without
\* created_at in its payload.  The metadata store, the file storage and the
\* vector store may fail.
InitSweep ==
    /\ chat = NoChat
    /\ now = 5
    /\ tempFiles = {}
    /\ att = [p \in Procs |-> IdleAtt]
    /\ procs = {1}
    /\ faults = {"db", "storage", "qdrant"}
    /\ collection = FullCollection
    /\ \E u \in Users, day1, day2, pday1 \in SweepDays,
          pday2 \in SweepDays \cup {NoCreatedAt}, there \in BOOLEAN :
         /\ day1 <= pday1
         /\ day2 <= pday2 \/ pday2 = NoCreatedAt
         /\ docs = [d \in Docs |->
                      IF d = "d1"
                      THEN SweepDoc("u1", "n1", "p1", GoodText, day1, TRUE)
                      ELSE SweepDoc(u, "n2", "p2", ShortText, day2, there)]
         /\ points = CreatedOn(IngestedPoints("d1", "u1", "n1", GoodText, 1), pday1)
                        \cup CreatedOn(IngestedPoints("d2", u, "n2", ShortText, 4),
                                       pday2)
    /\ storage = [f \in Paths |-> IF f = "p1" THEN File(GoodText)
                                              ELSE File(ShortText)]
    /\ nextId = 5
    /\ hist = [d \in Docs |-> [ns |-> IF d = "d1" THEN <<3>> ELSE <<1>>,
                               tainted |-> FALSE]]

\* Runs of the retention sweep, by the scheduler or by manual_cleanup, one
\* after the other.
NextSweep ==
    \E p \in Procs :
        \/ CleanupTask(p)
        \/ ManualCleanup(p)
        \/ CleanupList(p)
        \/ CleanupFile(p)
        \/ CleanupMetadata(p)
        \/ DeleteOldVectors(p)
        \/ Finish(p)

SpecSweep == InitSweep /\ [][NextSweep]_vars

\* Day 5.  One document of u1, created on day 1 and not yet ingested, its
\* file of three chunks in the storage; two request tasks at a time; no
\* service fails.
InitRace ==
    /\ chat = NoChat
    /\ now = 5
    /\ points = {}
    /\ nextId = 1
    /\ tempFiles = {}
    /\ att = [p \in Procs |-> IdleAtt]
    /\ hist = [d \in Docs |-> [ns |-> <<>>, tainted |-> FALSE]]
    /\ collection = FullCollection
    /\ docs = [d \in Docs |->
                 IF d = "d1"
                 THEN [InitDoc("u1", "n1", "p1", "txt") EXCEPT !.created_at = 1]
                 ELSE NoMeta]
    /\ storage = [f \in Paths |-> IF f = "p1" THEN File(GoodText) ELSE NoFile]
    /\ procs = {1, 2}
    /\ faults = {}

\* The owner's requests for the ingestion and for the deletion of the
\* document, and the retention sweep, as tasks of the one event loop: the
\* steps of two of them interleave at every await.
NextRace ==
    \E p \in Procs :
        \/ UploadRequest(p, "u1", "d1", "p1")
        \/ UploadEntry(p)
        \/ SetProcessing(p)
        \/ Download(p)
        \/ EmbedRequest(p)
        \/ EnsureCollection(p)
        \/ UpsertBatch(p)
        \/ SetCompleted(p)
        \/ Except(p)
        \/ DeleteDocument(p, "u1", "d1")
        \/ DeleteMultipleDocuments(p, "u1", <<"d1">>)
        \/ DeleteMultipleVerify(p)
        \/ DeleteMultipleMetadata(p)
        \/ DeleteVectors(p)
        \/ DeleteFile(p)
        \/ DeleteMetadata(p)
        \/ CleanupTask(p)
        \/ CleanupList(p)
        \/ CleanupFile(p)
        \/ CleanupMetadata(p)
        \/ DeleteOldVectors(p)
        \/ Finish(p)

SpecRace == InitRace /\ [][NextRace]_vars

\* Two documents not yet ingested, the first of u1 and the second of either
\* user, each with a file of three chunks; two request tasks at a time; no
\* service fails.
InitPair ==
    /\ InitCommon
    /\ collection = FullCollection
    /\ \E u \in Users :
         docs = [d \in Docs |-> IF d = "d1" THEN InitDoc("u1", "n1", "p1", "txt")
                                ELSE InitDoc(u, "n2", "p2", "txt")]
    /\ storage = [f \in Paths |-> IF f = "p1" THEN File(GoodText)
                                              ELSE File(MixedText)]
    /\ procs = {1, 2}
    /\ faults = {}

\* The first task ingests the first document and the second task the
\* second, each for its owner; their steps interleave at every await.
NextPair ==
    \E p \in Procs :
        \/ /\ p = 1
           /\ UploadRequest(p, "u1", "d1", "p1")
        \/ /\ p = 2
           /\ UploadRequest(p, docs["d2"].user_id, "d2", "p2")
        \/ UploadEntry(p)
        \/ SetProcessing(p)
        \/ Download(p)
        \/ EmbedRequest(p)
        \/ EnsureCollection(p)
        \/ UpsertBatch(p)
        \/ SetCompleted(p)
        \/ Finish(p)

SpecPair == InitPair /\ [][NextPair]_vars

\* Two tenants with a document each, the first ingested (three points,
\* completed) and the second not yet; the metadata store may fail.
InitTenants ==
    /\ chat = NoChat
    /\ now = 0
    /\ tempFiles = {}
    /\ att = [p \in Procs |-> IdleAtt]
    /\ procs = {1}
    /\ faults = {"db"}
    /\ collection = FullCollection
    /\ docs = [d \in Docs |-> IF d = "d1" THEN SearchDoc("u1", "n1", "p1", GoodText)
                               ELSE SearchDoc("u2", "n2", "p2", <<>>)]
    /\ points = IngestedPoints("d1", "u1", "n1", GoodText, 1)
    /\ storage = [f \in Paths |-> IF f = "p1" THEN File(GoodText)
                                              ELSE File(MixedText)]
    /\ nextId = 4
    /\ hist = [d \in Docs |-> [ns |-> IF d = "d1" THEN <<3>> ELSE <<>>,
                               tainted |-> FALSE]]

\* The requests of either tenant that name a document: ingestion,
\* reprocessing, deletion of one and of several documents.
NextTenants ==
    \E p \in Procs :
        \/ \E u \in Users, d \in Docs, path \in Paths : UploadRequest(p, u, d, path)
        \/ \E u \in Users, d \in Docs : ReprocessDocument(p, u, d)
        \/ UploadEntry(p)
        \/ SetProcessing(p)
        \/ Download(p)
        \/ EmbedRequest(p)
        \/ EnsureCollection(p)
        \/ UpsertBatch(p)
        \/ SetCompleted(p)
        \/ Except(p)
        \/ \E u \in Users, d \in Docs : DeleteDocument(p, u, d)
        \/ \E u \in Users, ids \in DeleteIdLists : DeleteMultipleDocuments(p, u, ids)
        \/ DeleteMultipleVerify(p)
        \/ DeleteMultipleMetadata(p)
        \/ DeleteVectors(p)
        \/ DeleteFile(p)
        \/ DeleteMetadata(p)
        \/ Finish(p)

SpecTenants == InitTenants /\ [][NextTenants]_vars

\* One document, a vector store that may fail, and the collection in any of
\* its states at the start: absent, or present with some of its indexes.
InitCollection ==
    /\ InitCommon
    /\ collection \in
          {NoCollection}
          \cup {[exists |-> TRUE, indexes |-> ix] :
                   ix \in SUBSET {"user_id", "document_id"}}
    /\ docs = [d \in Docs |-> IF d = "d1"
                              THEN InitDoc("u1", "n1", "p1", "txt")
                              ELSE NoMeta]
    /\ storage = [f \in Paths |-> IF f = "p1" THEN File(GoodText) ELSE NoFile]
    /\ procs = {1}
    /\ faults = {"qdrant"}

SpecCollection == InitCollection /\ [][Next]_vars

\* The chunker on every text of up to MaxSegs segments of these kinds: only
\* whitespace, of the threshold length, one character longer, longer.  No
\* service fails.
SegKinds == {Seg("w", 0), Seg("s", 50), Seg("t", 51), Seg("a", 60)}

ChunkInputs == UNION {[1..n -> SegKinds] : n \in 0..MaxSegs}

InitChunk ==
    /\ InitCommon
    /\ collection = FullCollection
    /\ \E text \in ChunkInputs :
         /\ docs = [d \in Docs |-> IF d = "d1"
                                   THEN InitDoc("u1", "n1", "p1", "txt")
                                   ELSE NoMeta]
         /\ storage = [f \in Paths |-> IF f = "p1" THEN File(text) ELSE NoFile]
    /\ procs = {1}
    /\ faults = {}

SpecChunk == InitChunk /\ [][Next]_vars

\* The embedding service alone: direct calls of get_embeddings and
\* get_batch_embeddings on every list of up to MaxTexts texts, with a
\* provider that always answers with a vector or one that may fail.
TextInputs ==
    UNION {[1..n -> {Seg("a", 60), Seg("b", 60), Seg("c", 60)}] : n \in 0..MaxTexts}

BatchSizes == 1..MaxBatch

InitEmbed ==
    /\ InitCommon
    /\ collection = FullCollection
    /\ docs = [d \in Docs |-> NoMeta]
    /\ storage = [f \in Paths |-> NoFile]
    /\ procs = {1}
    /\ faults \in {{}, {"provider"}}

NextEmbed ==
    \E p \in Procs :
        \/ \E texts \in TextInputs : GetEmbeddings(p, texts)
        \/ \E texts \in TextInputs, b \in BatchSizes : GetBatchEmbeddings(p, texts, b)
        \/ EmbedRequest(p)
        \/ Finish(p)

SpecEmbed == InitEmbed /\ [][NextEmbed]_vars

\* Every request to the provider is answered (with a vector, a status or the
\* error of the 30 s timeout), and the task goes on when it is.
SpecEmbedFair == SpecEmbed /\ \A p \in Procs : WF_vars(EmbedRequest(p))


(***************************************************************************)
(* Properties.                                                             *)
(***************************************************************************)
Ingestions == {"upload", "reprocess"}

\* No request is being handled.
Quiescent == \A p \in procs : att[p].pc \in {"idle", "returned"}

\* The values of document_ids searched with: None, the empty list, one id,
\* several ids, ids of another tenant's document, a single string.
DocIdInputs ==
    { NoDocIds, DocIdList(<<>>), DocIdList(<<"d1">>), DocIdList(<<"d2">>),
      DocIdList(<<"d1", "d2">>), DocIdString("d2") }

\* The limits searched with: one, two, and one no store content exceeds.
Limits == {1, 2, MaxIds}

\* C1: tenant isolation of search.  In every reachable state of the vector
\* store, for every query vector, tenant B, value of document_ids and limit,
\* every result search_similar_chunks may return is a stored point whose
\* user_id is B.
C1_TenantIsolation ==
    \A u \in Users, q \in QueryVectors, dids \in DocIdInputs, limit \in Limits :
        \A r \in search_similar_chunks(q, u, dids, limit) :
            \A pt \in points : pt.id = r.id => pt.user_id = u

\* Both tenants hold a point with the same chunk text; tenant u1's search
\* over all its documents with the maximal limit returns results, and its
\* search scoped to the other tenant's document returns none.
C1_Witness ==
    /\ \E a \in points, b \in points :
          a.user_id = "u1" /\ b.user_id = "u2" /\ a.chunk_text = b.chunk_text
    /\ search_similar_chunks(<<1, 0>>, "u1", NoDocIds, MaxIds) # {}
    /\ search_similar_chunks(<<1, 0>>, "u1", DocIdList(<<"d2">>), MaxIds) = {}


\* Chunking gave chunks, every batch of embeddings was returned (one vector
\* per chunk, that of the chunk), and every batch of the points built from
\* them is in the store.
AttemptComplete(a) ==
    /\ a.chunks # <<>>
    /\ Len(a.all_embeddings) = Len(a.chunks)
    /\ Len(a.pts) = Len(a.chunks)
    /\ \A i \in 1..Len(a.chunks) :
          /\ a.all_embeddings[i] = EmbeddingOf(a.chunks[i].text)
          /\ a.pts[i].chunk_text = a.chunks[i].text
          /\ a.pts[i].vector = a.all_embeddings[i]
          /\ a.pts[i].chunk_index = i - 1
          /\ a.pts[i] \in points

\* C2: a document's status becomes completed only by the step of an attempt
\* on that document that stands at the write of completed with its chunking,
\* every batch of its embeddings and every batch of its upsert done.
C2_CompletedOnlyAfterAll ==
    [][\A d \in Docs :
          (docs'[d].status = "completed" /\ docs[d].status # "completed")
          => \E p \in procs : /\ att[p].doc = d
                              /\ att[p].pc = "set_completed"
                              /\ AttemptComplete(att[p])]_vars

\* An attempt whose points went to the store in two batches has returned
\* success and the document is completed.
C2_Witness ==
    \E p \in procs :
        /\ att[p].pc = "returned"
        /\ att[p].op \in Ingestions
        /\ att[p].resp.kind = "ok"
        /\ att[p].resp.count > UpsertBatchSize
        /\ docs[att[p].doc].status = "completed"

\* The failures of an attempt after the ownership and metadata checks, apart
\* from failures of the metadata store.
IngestionFailures ==
    {"download", "extract", "blank", "nochunks", "empty_chunks", "embed",
     "mismatch", "store"}

FailedWith(p, excs) ==
    /\ att[p].pc = "returned"
    /\ att[p].op \in Ingestions
    /\ att[p].exc \in excs

ReturnedAfterProcessing(p) ==
    /\ att[p].pc = "returned"
    /\ att[p].op \in Ingestions
    /\ att[p].resp.kind \in {"ok", "fail"}
    /\ att[p].exc \notin {"metadata", "status_processing"}

ReprocessProceeds(p, d) ==
    /\ ReprocessDocument(p, docs[d].user_id, d)
    /\ att'[p].pc = "upload_entry"

\* upload_document passes its checks.
UploadProceeds(p) ==
    /\ UploadEntry(p)
    /\ att'[p].pc = "set_processing"

\* upload_document sets the status to processing and goes on to the download.
SetsProcessing(p) ==
    /\ SetProcessing(p)
    /\ att'[p].pc = "download"
    /\ docs'[att[p].doc].status = "processing"

\* C5: whatever the status of a document, a reprocess request of its owner
\* can pass the checks of reprocess_document and of upload_document and set
\* the status to processing, and the request is then at the download with
\* the status processing.
C5_ReprocessReenters ==
    \A p \in procs :
        /\ \A d \in Docs :
              (Ready(p) /\ docs[d].exists /\ CanDraw(docs[d].file_path))
              => ENABLED ReprocessProceeds(p, d)
        /\ (att[p].op = "reprocess" /\ att[p].pc = "upload_entry")
              => ENABLED UploadProceeds(p)
        /\ (att[p].op = "reprocess" /\ att[p].pc = "set_processing")
              => ENABLED SetsProcessing(p)
        /\ (att[p].op = "reprocess" /\ att[p].pc = "download")
              => docs[att[p].doc].status = "processing"

\* A reprocess request for a document that was completed is at the download.
C5_Witness ==
    \E p \in procs :
        /\ att[p].op = "reprocess"
        /\ att[p].pc = "download"
        /\ att[p].doc_metadata.status = "completed"
        /\ docs[att[p].doc].status = "processing"

\* The step is a call of delete_document_vectors.
IsDeleteStep ==
    \E p \in procs :
        \/ att[p].pc = "idle" /\ att'[p].op = "delete_vectors"
        \/ att[p].pc = "del_vectors"

\* The points tagged with the document and its owner.
OwnPoints(d) ==
    {pt \in points : pt.document_id = d /\ pt.user_id = docs[d].user_id}

\* C6: between requests, a document with k successful ingestion attempts of N
\* chunks each since its last delete, and no failed attempt that left points,
\* has k*N points tagged with its id and its owner; every point has its own
\* id; and a step other than a delete keeps every point of the store as it is
\* and gives the points it adds ids that no point had.
C6_ReprocessKeepsOldChunks ==
    /\ [](\A d \in Docs :
            (/\ Quiescent
             /\ docs[d].exists
             /\ ~hist[d].tainted
             /\ \A i \in 1..Len(hist[d].ns) : hist[d].ns[i] = hist[d].ns[1])
            => /\ Cardinality(OwnPoints(d)) = SumSeq(hist[d].ns)
               /\ DocPoints(d) = OwnPoints(d))
    /\ [](\A a, b \in points : a.id = b.id => a = b)
    /\ [][~IsDeleteStep
          => /\ points \subseteq points'
             /\ \A n \in points' \ points : \A o \in points : o.id # n.id]_vars

\* Two successful attempts of three chunks each, no delete: six points.
C6_Witness ==
    /\ Quiescent
    /\ hist["d1"].ns = <<3, 3>>
    /\ ~hist["d1"].tainted
    /\ Cardinality(OwnPoints("d1")) = 6

\* The chunks of a document visible to a search of its owner scoped to it.
VisibleChunks(d) ==
    search_similar_chunks(<<1, 1>>, docs[d].user_id, DocIdList(<<d>>), MaxIds)

\* C7 as stated: when a successful reprocess of a document returns after an
\* earlier successful ingestion (no failed attempt and no delete in between),
\* the status is completed and every chunk of the document is visible once,
\* as after the first ingestion.
C7_ReprocessIdempotent ==
    \A p \in procs :
        LET d == att[p].doc
        IN  (/\ att[p].pc = "returned"
             /\ att[p].op = "reprocess"
             /\ att[p].resp.kind = "ok"
             /\ ~hist[d].tainted
             /\ Len(hist[d].ns) >= 2)
            => /\ docs[d].status = "completed"
               /\ \A i \in 0..(att[p].resp.count - 1) :
                     Cardinality({r \in VisibleChunks(d) : r.chunk_index = i}) = 1

\* C8 as stated: a document has an error message only when its status is
\* error.
C8_ErrorMessageOnlyWithError ==
    \A d \in Docs :
        (docs[d].exists /\ docs[d].error_message # "") => docs[d].status = "error"

\* C9 as stated: when an ingestion request has returned, no temporary file
\* its download created still exists.
C9_TempFileReleased ==
    \A p \in procs :
        (att[p].pc = "returned" /\ att[p].op \in Ingestions /\ att[p].tmp_name # 0)
        => att[p].tmp_name \notin tempFiles

\* C10 as stated: a call of delete_document_vectors(document_id, user_id)
\* that returns removes exactly the points with that document_id and that
\* user_id, all of them, and leaves every other point as it is.
C10_DeletesExactlyMatching ==
    [][\A p \in procs :
          (/\ att[p].pc = "idle"
           /\ att'[p].pc = "returned"
           /\ att'[p].op = "delete_vectors"
           /\ att'[p].resp.kind = "ok")
          => points' = {pt \in points : ~(/\ pt.document_id = att'[p].doc
                                          /\ pt.user_id = att'[p].user)}]_vars

\* The step is a call of delete_document_vectors by task p that returned a
\* count.
DeleteReturned(p) ==
    /\ att[p].pc = "idle"
    /\ att'[p].pc = "returned"
    /\ att'[p].op = "delete_vectors"
    /\ att'[p].resp.kind = "ok"

\* The points with that document_id and that user_id.
Matching(d, u) == {pt \in points : pt.document_id = d /\ pt.user_id = u}

\* C11: a call of delete_document_vectors that returns a count returns the
\* number of points it removed from the store; these are matching points, as
\* many as match up to the cap of the single scan; when no point matches it
\* returns 0, changes nothing and sends no delete request.
C11_DeleteCount ==
    [][\A p \in procs :
          DeleteReturned(p)
          => LET m == Matching(att'[p].doc, att'[p].user)
                 n == att'[p].resp.count
             IN  /\ points' \subseteq points
                 /\ points \ points' \subseteq m
                 /\ n = Cardinality(points \ points')
                 /\ n = Min(ScrollLimit, Cardinality(m))
                 /\ m = {} => /\ n = 0
                              /\ points' = points
                              /\ att'[p].reqs = <<"scroll">>
                 /\ m # {} => att'[p].reqs = <<"scroll", "delete">>]_vars

\* A delete has returned the cap as its count while points of the document
\* are left.
C11_Witness ==
    \E p \in procs :
        /\ att[p].pc = "returned"
        /\ att[p].op = "delete_vectors"
        /\ att[p].resp.kind = "ok"
        /\ att[p].resp.count = ScrollLimit
        /\ Matching(att[p].doc, att[p].user) # {}

\* C12 as stated: when delete_document has returned success, the document's
\* row is gone, its file is gone and no point tagged with the document and
\* the caller is left in the vector store.
C12_DeleteDocumentComplete ==
    \A p \in procs :
        (/\ att[p].pc = "returned"
         /\ att[p].op = "delete_document"
         /\ att[p].resp.kind = "ok")
        => /\ ~docs[att[p].doc].exists
           /\ ~storage[att[p].file_path].exists
           /\ Matching(att[p].doc, att[p].user) = {}

Ceil(n, b) == (n + b - 1) \div b

\* The first vectors of the result are those of the first texts, in order.
InInputOrder(a, vectors) ==
    \A i \in 1..Len(vectors) : vectors[i] = EmbeddingOf(a.chunks[i].text)

\* C13: a call get_batch_embeddings(texts, B) of N texts works on one batch
\* at a time, in input order: while it runs, the vectors of all earlier
\* batches and of no later one are collected, and the call of get_embeddings
\* under way is the k-th for the k-th batch; when it returns, it has made
\* ceil(N/B) calls of get_embeddings and returns N vectors, the i-th that of
\* the i-th text, with exactly N provider requests when none failed.
C13_BatchedEmbeddings ==
    \A p \in procs :
        LET a == att[p]
            N == Len(a.chunks)
            B == a.batch_size
        IN  a.op = "get_batch_embeddings"
            => /\ a.pc = "embed"
                  => /\ a.batch_i < N
                     /\ a.batch_i % B = 0
                     /\ a.calls = (a.batch_i \div B) + 1
                     /\ Len(a.all_embeddings) = a.batch_i
                     /\ InInputOrder(a, a.all_embeddings)
                     /\ Len(a.batch_emb) < Len(CurrentBatch(a))
                     /\ \A j \in 1..Len(a.batch_emb) :
                           a.batch_emb[j] = EmbeddingOf(a.chunks[a.batch_i + j].text)
               /\ (a.pc = "returned" /\ a.resp.kind = "ok")
                  => /\ a.calls = Ceil(N, B)
                     /\ Len(a.all_embeddings) = N
                     /\ a.resp.count = N
                     /\ InInputOrder(a, a.all_embeddings)
                     /\ (a.log.busy = 0 /\ a.log.error = 0) => a.log.ok = N

\* Three texts in batches of two: two calls, three requests, three vectors.
C13_Witness ==
    \E p \in procs :
        /\ att[p].pc = "returned"
        /\ att[p].op = "get_batch_embeddings"
        /\ att[p].resp.kind = "ok"
        /\ Len(att[p].chunks) = 3
        /\ att[p].batch_size = 2
        /\ att[p].calls = 2
        /\ att[p].log = [ok |-> 3, busy |-> 0, error |-> 0]
        /\ Len(att[p].all_embeddings) = 3

\* The provider has answered every request of the call with status 503.
OnlyBusy(a) == a.log.ok = 0 /\ a.log.error = 0

\* C14: a call of get_embeddings on a non-empty list whose every request is
\* answered with status 503 is in its first, second or third attempt, one
\* request per attempt; it returns only after exactly 3 requests, with an
\* error and no vectors; and every call of get_embeddings returns.
C14_RetryBound ==
    /\ [](\A p \in procs :
            LET a == att[p]
            IN  (a.op = "get_embeddings" /\ a.chunks # <<>> /\ OnlyBusy(a))
                => /\ a.pc = "embed"
                      => /\ a.attempt <= 3
                         /\ a.log.busy = a.attempt - 1
                   /\ a.pc = "returned"
                      => /\ a.log.busy = 3
                         /\ a.resp.kind = "fail"
                         /\ a.resp.error # ""
                         /\ a.all_embeddings = <<>>)
    /\ \A p \in Procs : (att[p].pc = "embed") ~> (att[p].pc = "returned")

\* A call on two texts has failed after three requests, all answered 503.
C14_Witness ==
    \E p \in procs :
        /\ att[p].pc = "returned"
        /\ att[p].op = "get_embeddings"
        /\ Len(att[p].chunks) = 2
        /\ att[p].log = [ok |-> 0, busy |-> 3, error |-> 0]
        /\ att[p].resp.kind = "fail"

\* C15: a direct call of get_embeddings or get_batch_embeddings with no texts
\* returns the empty list without an error, and has sent no request to the
\* provider (and get_batch_embeddings has not called get_embeddings).
C15_EmptyInput ==
    \A p \in procs :
        LET a == att[p]
        IN  (a.op \in EmbeddingCalls /\ a.chunks = <<>> /\ a.pc # "idle")
            => /\ a.pc = "returned"
               /\ a.resp.kind = "ok"
               /\ a.all_embeddings = <<>>
               /\ a.log = NoLog
               /\ a.op = "get_batch_embeddings" => a.calls = 0

\* get_embeddings has returned for no texts while the provider may fail.
C15_Witness ==
    \E p \in procs :
        /\ att[p].pc = "returned"
        /\ att[p].op = "get_embeddings"
        /\ att[p].chunks = <<>>
        /\ att[p].resp = OkResp(0)
        /\ faults = {"provider"}

\* The step of task p is an upsert of a batch that succeeded.
UpsertSucceeds(p) ==
    /\ att[p].pc = "upsert"
    /\ att'[p].pc \in {"upsert", "set_completed"}
    /\ att'[p] # att[p]

\* The step of task p is an upsert of a batch that failed.
UpsertFails(p) == att[p].pc = "upsert" /\ att'[p].pc = "except"

\* What C16 says of the store: batches are consecutive and of at most the
\* batch size; when the upsert of a batch fails, the points of the batches
\* before it are in the store and those of this and of later batches are not,
\* the error of the store is raised, and the handler that catches it writes
\* no point and returns success=false with that error.
StoreBatches(p) ==
    LET a == att[p]
    IN  /\ UpsertSucceeds(p)
           => /\ points' = points \cup Range(UpsertBatchOf(a))
              /\ UpsertBatchOf(a) =
                    SubSeq(a.pts, a.store_i + 1,
                           Min(a.store_i + UpsertBatchSize, Len(a.pts)))
              /\ Len(UpsertBatchOf(a)) \in 1..UpsertBatchSize
              /\ att'[p].store_i = a.store_i + UpsertBatchSize
        /\ UpsertFails(p)
           => /\ points' = points
              /\ att'[p].exc = "store"
              /\ \A i \in 1..Len(a.pts) : a.pts[i] \in points' <=> i <= a.store_i
        /\ (a.pc = "except" /\ a.exc = "store")
           => /\ points' = points
              /\ att'[p].pc = "returned"
              /\ att'[p].resp = FailResp(ErrMsg("store"))

IngestionSucceeds(p) ==
    /\ att[p].pc = "set_completed"
    /\ att'[p].pc = "returned"
    /\ att'[p].resp.kind = "ok"

\* C17: an ingestion sets the status to processing before it downloads and
\* while it works no point has one of the ids it draws until it writes it;
\* when it succeeds, for a file whose chunker output has N segments, the
\* status goes from processing to completed, the response counts N, and the
\* store holds N points of this attempt, the i-th tagged with the caller,
\* the document, chunk_index i-1 and the text of the i-th segment, all of
\* different ids.
C17_SuccessfulIngestion ==
    /\ [](\A p \in procs :
            LET a == att[p]
            IN  (a.op \in Ingestions /\ a.pc \in {"download", "embed", "store_ensure",
                                                 "upsert", "set_completed"})
                => /\ docs[a.doc].status = "processing"
                   /\ a.pc = "upsert"
                      => \A i \in 1..Len(a.pts) :
                            /\ i > a.store_i + UpsertBatchSize
                               => \A pt \in points : pt.id # a.pts[i].id
                            /\ i <= a.store_i => a.pts[i] \in points)
    /\ [][\A p \in procs :
            IngestionSucceeds(p)
            => LET a == att[p]
                   segs == chunk_text(storage[a.file_path].text)
                   N == Len(segs)
               IN  /\ N > 0
                   /\ docs[a.doc].status = "processing"
                   /\ docs'[a.doc].status = "completed"
                   /\ att'[p].resp.count = N
                   /\ Len(a.pts) = N
                   /\ Cardinality({a.pts[i].id : i \in 1..N}) = N
                   /\ points' = points
                   /\ \A i \in 1..N :
                         /\ a.pts[i] \in points
                         /\ a.pts[i].user_id = a.user
                         /\ a.pts[i].document_id = a.doc
                         /\ a.pts[i].chunk_index = i - 1
                         /\ a.pts[i].chunk_text = segs[i].text
                         /\ a.pts[i].vector = EmbeddingOf(segs[i].text)]_vars

\* The first ingestion of a document has returned success for three chunks:
\* the store holds three points of the document, with chunk_index 0, 1 and 2.
C17_Witness ==
    \E p \in procs :
        /\ att[p].pc = "returned"
        /\ att[p].op = "upload"
        /\ att[p].resp = OkResp(3)
        /\ hist[att[p].doc] = [ns |-> <<3>>, tainted |-> FALSE]
        /\ docs[att[p].doc].status = "completed"
        /\ docs[att[p].doc].error_message = ""
        /\ {pt.chunk_index : pt \in OwnPoints(att[p].doc)} = {0, 1, 2}
        /\ Cardinality(OwnPoints(att[p].doc)) = 3

\* The positions of an ingestion after process_document returned chunks.
AfterChunking == {"embed", "store_ensure", "upsert", "set_completed"}

\* The trimmed length of a stored chunk text is greater than 50.
LongText(t) == \A k \in SegKinds : k.text = t => k.len > 50

\* C18: the chunks an ingestion works with are segments of the file's text,
\* in order, each of trimmed length greater than 50, and at least one; an
\* ingestion of a text that is blank or has no such segment fails in
\* process_document; every chunk in the store has trimmed length greater than
\* 50; and the points of an attempt carry the chunk_index values 0, 1, ... in
\* the order of the chunks kept.
C18_ChunkFilter ==
    /\ \A p \in procs :
          LET a == att[p]
          IN  /\ (a.op \in Ingestions /\ a.pc \in AfterChunking)
                 => /\ a.chunks # <<>>
                    /\ a.chunks = chunk_text(storage[a.file_path].text)
                    /\ \A i \in 1..Len(a.chunks) : a.chunks[i].len > 50
                    /\ Len(a.chunks) =
                          Cardinality({i \in 1..Len(storage[a.file_path].text) :
                                          storage[a.file_path].text[i].len > 50})
              /\ (a.op \in Ingestions /\ a.pc \in {"upsert", "set_completed"})
                 => /\ Len(a.pts) = Len(a.chunks)
                    /\ \A i \in 1..Len(a.pts) :
                          /\ a.pts[i].chunk_index = i - 1
                          /\ a.pts[i].chunk_text = a.chunks[i].text
              /\ FailedWith(p, {"blank", "nochunks"})
                 => \A i \in 1..Len(storage[docs[a.doc].file_path].text) :
                       storage[docs[a.doc].file_path].text[i].len <= 50
    /\ \A pt \in points : LongText(pt.chunk_text)
    /\ \A d \in Docs :
          (Quiescent /\ docs[d].exists /\ ~hist[d].tainted /\ Len(hist[d].ns) = 1)
          => {pt.chunk_index : pt \in OwnPoints(d)} = 0..(hist[d].ns[1] - 1)

\* A text whose second segment has the threshold length was ingested: the
\* store holds its first and third segment with chunk_index 0 and 1.
C18_Witness ==
    /\ storage["p1"].text = <<Seg("a", 60), Seg("s", 50), Seg("t", 51)>>
    /\ Quiescent
    /\ hist["d1"] = [ns |-> <<2>>, tainted |-> FALSE]
    /\ \E x, y \in points :
          /\ x.chunk_text = "a" /\ x.chunk_index = 0
          /\ y.chunk_text = "t" /\ y.chunk_index = 1

\* The step of task p is a direct call of ensure_collection_exists.
EnsureCalled(p) == att[p].pc = "idle" /\ att'[p].op = "ensure_collection"

\* C19: a call of ensure_collection_exists never changes the points; a call
\* that meets no failure of the store returns and leaves the collection with
\* both indexes, from every state; once the collection is in that state every
\* further call leaves it so; and a call on an existing collection raises
\* only when its first request (get_collections) fails, never because an
\* index is already there.
C19_EnsureIdempotent ==
    [][/\ collection = FullCollection => collection' = FullCollection
       /\ \A p \in procs :
            /\ (att[p].pc = "store_ensure" /\ att'[p] # att[p])
               => /\ points' = points
                  /\ (att'[p].pc = "upsert") => collection'.exists
            /\ EnsureCalled(p)
               => /\ points' = points
                  /\ ~att'[p].swallowed
                     => /\ att'[p].resp.kind = "ok"
                        /\ collection' = FullCollection
                  /\ att'[p].resp.kind = "ok"
                     => /\ collection'.exists
                        /\ collection.indexes \subseteq collection'.indexes
                  /\ (collection.exists /\ att'[p].resp.kind = "fail")
                     => /\ att'[p].reqs = <<"get_collections">>
                        /\ collection' = collection]_vars

\* A second call has returned without an error on the collection that has
\* its indexes and holds points.
C19_Witness ==
    \E p \in procs :
        /\ att[p].pc = "returned"
        /\ att[p].op = "ensure_collection"
        /\ att[p].resp.kind = "ok"
        /\ att[p].reqs = <<"get_collections", "get_collection",
                           "index_user_id", "index_document_id">>
        /\ collection = FullCollection
        /\ points # {}


\* The points the claim's filter selects: those of the user, and of one of the
\* listed documents when the list has an id.
Selected(user_id, document_ids) ==
    {pt \in points :
        /\ pt.user_id = user_id
        /\ document_ids.tag = "list" /\ document_ids.ids # <<>>
              => \E i \in 1..Len(document_ids.ids) :
                    pt.document_id = document_ids.ids[i]}

\* A call of search_similar_chunks with document_ids absent or a list has
\* returned its results.
SearchReturned(p) ==
    /\ att[p].pc = "returned"
    /\ att[p].op = "search"
    /\ att[p].exc = "none"
    /\ att[p].document_ids.tag # "str"

\* C20: the filter of search_similar_chunks selects the points of the user
\* whose document_id is in document_ids when the list is non-empty (whether
\* it has one id or several), and the points of the user when it is empty or
\* absent; the call returns at most limit results, each of a selected point
\* and no two of one point.
C20_SearchFilter ==
    /\ \A u \in Users, dids \in SearchDocIds :
          dids.tag # "str"
             => {pt \in points : SearchFilter(pt, u, dids)} = Selected(u, dids)
    /\ \A p \in Procs :
          SearchReturned(p) =>
             LET a == att[p]
                 sel == Selected(a.user, a.document_ids)
             IN  /\ Len(a.results) <= a.limit
                 /\ Len(a.results) <= Cardinality(sel)
                 /\ \A i \in 1..Len(a.results) :
                       \E pt \in sel : a.results[i] = SearchResult(a.query, pt)
                 /\ \A i, j \in 1..Len(a.results) :
                       a.results[i].id = a.results[j].id => i = j
                 /\ a.resp = OkResp(Len(a.results))

\* A search over two ids, the second listed first, with more selected points
\* than the limit, has returned limit results from both documents.
C20_Witness ==
    \E p \in Procs :
        /\ SearchReturned(p)
        /\ att[p].document_ids = DocIdList(<<"d2", "d1">>)
        /\ att[p].limit = 5
        /\ Len(att[p].results) = 5
        /\ Cardinality(Selected(att[p].user, att[p].document_ids)) > 5
        /\ {att[p].results[i].document_id : i \in 1..5} = {"d1", "d2"}


\* The task's question is at its search request, which does not fail in
\* this step.
AskSearchAnswers(p) ==
    /\ p \in procs
    /\ att[p].op \in AskOps
    /\ att[p].pc = "search_query"
    /\ att'[p] # att[p]
    /\ att'[p].exc # "search"

\* C21: a question whose search matches no point (the filter of the request
\* selects nothing in the store) is answered, by the step of the search
\* request, with success, no sources and the not-found answer; no call of the
\* answer generator was made and no row of the chat tables is written, in
\* this step or in any step of a request without search results.
C21_EmptyRetrieval ==
    /\ [][\A p \in Procs :
            (AskSearchAnswers(p)
             /\ Selected(att[p].user, att[p].document_ids) = {})
            => /\ att'[p].pc = "returned"
               /\ att'[p].exc = "none"
               /\ att'[p].resp = OkResp(0)
               /\ att'[p].sources = <<>>
               /\ att'[p].answer = NotFoundAnswer
               /\ att'[p].llm_calls = 0
               /\ chat' = chat]_vars
    /\ [][chat' # chat
            => \E p \in procs : /\ att[p].op \in AskOps
                                /\ att[p].results # <<>>
                                /\ att[p].llm_calls = 1]_vars
    /\ [](\A p \in Procs :
            att[p].op \in AskOps /\ att[p].answer = NotFoundAnswer
               => att[p].llm_calls = 0)

\* A question asked with document_ids=[] while the store holds points, none
\* of the tenant, has been answered with the not-found response.
C21_Witness ==
    \E p \in Procs :
        /\ att[p].pc = "returned"
        /\ att[p].op = "ask"
        /\ att[p].document_ids = DocIdList(<<>>)
        /\ att[p].resp = OkResp(0)
        /\ att[p].answer = NotFoundAnswer
        /\ att[p].sources = <<>>
        /\ points # {}
        /\ \A pt \in points : pt.user_id # att[p].user


\* The score of a vector with itself: cosine similarity 1.
SelfSimilar(score) == score.den > 0 /\ score.num = score.den

\* A direct call of search_similar_chunks without a document filter has
\* returned its results.
RoundTripReturned(p) ==
    /\ att[p].pc = "returned"
    /\ att[p].op = "search"
    /\ att[p].exc = "none"
    /\ att[p].document_ids = NoDocIds

\* The points of the tenant stored with that embedding.
StoredWith(user_id, vector) ==
    {pt \in points : pt.user_id = user_id /\ pt.vector = vector}

\* The points of the tenant with another text whose embedding has the
\* direction of the query.
Rivals(user_id, query, text) ==
    {pt \in points : /\ pt.user_id = user_id
                     /\ pt.chunk_text # text
                     /\ SelfSimilar(Score(query, pt.vector))}

\* C22 as stated: a search with the embedding of a stored chunk of the
\* tenant returns as its first result the text of that chunk with score 1,
\* whatever else the store holds.
C22_Original ==
    \A p \in Procs :
        RoundTripReturned(p) =>
            \A pt \in StoredWith(att[p].user, att[p].query) :
                /\ att[p].results # <<>>
                /\ SelfSimilar(att[p].results[1].score)
                /\ att[p].results[1].text = pt.chunk_text

\* C22: a search with the embedding v of a stored chunk of the tenant, without
\* a document filter, returns as its first result a point of the tenant with
\* score 1 (no result scores higher); its text is the text of the chunk
\* when no point of the tenant with another text has an embedding of the
\* direction of v.
C22_RoundTrip ==
    \A p \in Procs :
        RoundTripReturned(p) =>
            \A pt \in StoredWith(att[p].user, att[p].query) :
                LET results == att[p].results
                IN  /\ results # <<>>
                    /\ SelfSimilar(results[1].score)
                    /\ \A i \in 1..Len(results) :
                          ~ScoreLess(results[1].score, results[i].score)
                    /\ \E o \in points : /\ o.id = results[1].id
                                          /\ o.user_id = att[p].user
                    /\ Rivals(att[p].user, att[p].query, pt.chunk_text) = {}
                          => results[1].text = pt.chunk_text

\* The store holds a chunk of the tenant with the embedding searched with,
\* another chunk of the tenant with another text and another embedding, and
\* a chunk of the other tenant with the embedding searched with; the first
\* result is the chunk.
C22_Witness ==
    \E p \in Procs :
        /\ RoundTripReturned(p)
        /\ \E pt \in StoredWith(att[p].user, att[p].query) :
              /\ Rivals(att[p].user, att[p].query, pt.chunk_text) = {}
              /\ att[p].results[1].text = pt.chunk_text
              /\ \E o \in points : /\ o.user_id = att[p].user
                                    /\ o.chunk_text # pt.chunk_text
              /\ \E o \in points : /\ o.user_id # att[p].user
                                    /\ o.vector = att[p].query


\* C23: every point tagged with the id of a document of the metadata store
\* carries the user_id of that document's owner, and all points that share a
\* document_id carry the same user_id, whatever requests the tenants made.
C23_ChunksOfOwner ==
    /\ \A pt \in points :
          docs[pt.document_id].exists
             => pt.user_id = docs[pt.document_id].user_id
    /\ \A a, b \in points :
          a.document_id = b.document_id => a.user_id = b.user_id

\* Both tenants have ingested their documents, and a request of a tenant for
\* the other tenant's document has been rejected.
C23_Witness ==
    /\ \A d \in Docs : docs[d].exists /\ DocPoints(d) # {}
    /\ \E p \in Procs :
          /\ att[p].pc = "returned"
          /\ att[p].op \in {"upload", "reprocess"}
          /\ att[p].resp = HttpError(403)
          /\ att[p].doc \in Docs
          /\ docs[att[p].doc].user_id # att[p].user


\* delete_multiple_documents has answered a non-empty list of ids.
MultiReturned(p) ==
    /\ att[p].pc = "returned"
    /\ att[p].op = "delete_multiple"
    /\ att[p].document_ids.ids # <<>>

\* How often the id is reported, among the deleted and the failed documents.
Reports(a, id) ==
    Cardinality({i \in 1..Len(a.deleted_docs) : a.deleted_docs[i] = id})
    + Cardinality({i \in 1..Len(a.failed_docs) : a.failed_docs[i].id = id})

\* Every input id is reported once, a failed one with a reason, and success
\* is true exactly when a document was deleted.
ReportedPerId(a) ==
    /\ \A i \in 1..Len(a.document_ids.ids) : Reports(a, a.document_ids.ids[i]) = 1
    /\ Len(a.deleted_docs) + Len(a.failed_docs) = Len(a.document_ids.ids)
    /\ \A i \in 1..Len(a.failed_docs) : a.failed_docs[i].error # ""
    /\ a.resp.kind = "ok" <=> a.deleted_docs # <<>>

\* C24 as stated: every non-empty list of ids is answered with a report of
\* every id.
C24_Original ==
    \A p \in Procs : MultiReturned(p) => ReportedPerId(att[p])

\* The ids are distinct and each is the id of a document of the caller.
OwnsAll(user_id, ids) ==
    /\ \A i, j \in 1..Len(ids) : ids[i] = ids[j] => i = j
    /\ \A i \in 1..Len(ids) : docs[ids[i]].exists /\ docs[ids[i]].user_id = user_id

\* C24: delete_multiple_documents answers a non-empty list of ids with 403,
\* reporting and deleting nothing, when the ids are not distinct documents of
\* the caller or the ownership query fails; every other non-empty list it
\* answers with a report of each input id exactly once, among the deleted
\* documents (whose rows are gone) or among the failed documents with a
\* reason, and with success exactly when a document was deleted.
C24_PartialFailure ==
    /\ [](\A p \in Procs :
            MultiReturned(p) =>
               IF att[p].resp = HttpError(403)
               THEN att[p].deleted_docs = <<>> /\ att[p].failed_docs = <<>>
               ELSE /\ ReportedPerId(att[p])
                    /\ \A i \in 1..Len(att[p].deleted_docs) :
                          ~docs[att[p].deleted_docs[i]].exists)
    /\ [][\A p \in Procs :
            att[p].pc = "dm_verify" /\ att'[p] # att[p]
            => /\ UNCHANGED <<docs, storage, points>>
               /\ IF OwnsAll(att[p].user, att[p].document_ids.ids)
                  THEN att'[p].resp = HttpError(403) \/ att'[p].pc = "dm_metadata"
                  ELSE att'[p].resp = HttpError(403)]_vars

\* Of two documents the first was deleted and the second failed: success.
C24_Witness ==
    \E p \in Procs :
        /\ MultiReturned(p)
        /\ Len(att[p].document_ids.ids) = 2
        /\ Len(att[p].deleted_docs) = 1
        /\ Len(att[p].failed_docs) = 1
        /\ att[p].deleted_docs[1] = att[p].document_ids.ids[1]
        /\ att[p].resp.kind = "ok"


\* The handler is delete_document or delete_multiple_documents.
DeleteOps == {"delete_document", "delete_multiple"}

\* C25: in delete_document and delete_multiple_documents the deletion of the
\* vectors and the deletion of the file are best effort: whatever their
\* outcome the handler goes on to the next step and the count of deleted
\* vectors grows by the points really deleted (0 when the vector deletion
\* failed); delete_document_metadata is then called, and when it succeeds
\* the row is gone and the document is reported as deleted.
C25_BestEffort ==
    [][\A p \in Procs :
         att[p].op \in DeleteOps /\ att'[p] # att[p]
         => LET a == att[p]
                b == att'[p]
                removed == Cardinality(points \ points')
            IN  /\ a.pc = "del_vectors"
                   => /\ b.pc = "del_file"
                      /\ docs' = docs
                      /\ "vectors" \in b.warnings \ a.warnings => removed = 0
                      /\ b.deleted_vectors_count =
                            IF a.op = "delete_multiple"
                            THEN a.deleted_vectors_count + removed
                            ELSE removed
                /\ a.pc = "del_file" => b.pc = "del_metadata" /\ docs' = docs
                /\ a.pc = "del_metadata"
                   => \/ /\ ~docs'[a.doc].exists
                         /\ IF a.op = "delete_multiple"
                            THEN b.deleted_docs = Append(a.deleted_docs, a.doc)
                            ELSE b.resp = OkResp(a.deleted_vectors_count)
                      \/ /\ docs' = docs
                         /\ IF a.op = "delete_multiple"
                            THEN /\ b.deleted_docs = a.deleted_docs
                                 /\ Len(b.failed_docs) = Len(a.failed_docs) + 1
                            ELSE b.resp.kind = "fail"]_vars

\* delete_document answered success with 0 deleted vectors after both the
\* vector deletion and the file deletion had failed: the row is gone, the
\* points and the file are still there.
C25_Witness ==
    \E p \in Procs :
        /\ att[p].pc = "returned"
        /\ att[p].op = "delete_document"
        /\ att[p].warnings = {"vectors", "file"}
        /\ att[p].resp = OkResp(0)
        /\ ~docs[att[p].doc].exists
        /\ DocPoints(att[p].doc) # {}
        /\ storage[att[p].file_path] # NoFile


\* C26: on the explicit delete and on the retention sweep, a step that
\* deletes the metadata row of a document is taken by a run that has already
\* sent its request for the deletion of chunks to the vector store.
C26_ChunksFirst ==
    [][\A p \in Procs : \A d \in Docs :
         att'[p] # att[p] /\ docs[d].exists /\ ~docs'[d].exists
         => "scroll" \in Range(att[p].reqs)]_vars

\* C27: in the loop of cleanup_old_documents the call of
\* delete_file_from_storage is followed, whatever its outcome, by the call
\* of delete_document_metadata for the same document.
C27_FileBestEffort ==
    [][\A p \in Procs :
         att[p].pc = "cl_file" /\ att'[p] # att[p]
         => att'[p].pc = "cl_metadata" /\ att'[p].doc = att[p].doc]_vars

\* C28: every run of cleanup_task that has returned has called
\* delete_old_vectors.
C28_VectorsEveryRun ==
    \A p \in Procs :
        att[p].pc = "returned" /\ att[p].op \in CleanupOps
        => att[p].reqs # <<>>


\* The request of the process carries no bearer credential.
NoCredential(a) == a.op \in AuthEndpoints /\ a.credentials = "absent"

\* C29: a request to upload_document, ask_question or get_documents without
\* bearer credential is answered 403 in the step in which it arrives, a
\* step that changes no document, file, point, collection or chat record;
\* the request has sent nothing to the embedding provider, the vector store
\* or the generator, and nothing of the handler runs for it afterwards.
C29_NoCredential ==
    /\ [][\A p \in Procs :
            NoCredential(att'[p]) /\ att'[p] # att[p]
            => /\ att[p].pc = "idle"
               /\ UNCHANGED <<docs, storage, points, collection, chat, tempFiles>>]_vars
    /\ [](\A p \in Procs :
            NoCredential(att[p])
            => /\ att[p].pc = "returned"
               /\ att[p].resp = HttpError(403)
               /\ att[p].calls = 0
               /\ att[p].reqs = <<>>
               /\ att[p].llm_calls = 0)

\* ask_question has answered 403 to a request without bearer credential,
\* with the completed document of u1 and its points in place.
C29_Witness ==
    \E p \in Procs :
        /\ NoCredential(att[p])
        /\ att[p].op = "ask_question"
        /\ att[p].resp = HttpError(403)
        /\ docs["d1"].status = "completed"
        /\ DocPoints("d1") # {}


\* C30: every source returned by ask_question or ask_quick_question is a
\* chunk of a document whose metadata row exists with status completed.
C30_CompletedOnly ==
    \A p \in Procs :
        att[p].pc = "returned" /\ att[p].op \in AskOps
        => \A i \in 1..Len(att[p].sources) :
              /\ docs[att[p].sources[i].document_id].exists
              /\ docs[att[p].sources[i].document_id].status = "completed"


\* The process is in an ingestion attempt for the document.
Ingesting(p, d) ==
    /\ att[p].op \in {"upload", "reprocess"}
    /\ att[p].doc = d
    /\ att[p].pc \notin {"idle", "returned"}

\* C31: a step of an ingestion attempt that changes the status of its
\* document either is the write of processing, or writes completed or error
\* over processing; after that write the attempt has returned.
C31_StatusOrder ==
    [][\A p \in Procs : \A d \in Docs :
         Ingesting(p, d) /\ att'[p] # att[p] /\ docs'[d].status # docs[d].status
         => \/ /\ att[p].pc = "set_processing"
               /\ docs'[d].status = "processing"
            \/ /\ docs[d].status = "processing"
               /\ docs'[d].status \in {"completed", "error"}
               /\ att'[p].pc = "returned"]_vars


\* C32: while get_embeddings works on a list of texts, a reply of the
\* provider that is a failure does not discard the vectors of the texts
\* already embedded in that call: the texts embedded so far stay embedded
\* and only the failed text is requested again.
C32_RetryPerText ==
    [][\A p \in Procs :
         (/\ att[p].pc = "embed"
          /\ att'[p].pc = "embed"
          /\ att'[p].batch_i = att[p].batch_i)
         => Len(att'[p].batch_emb) >= Len(att[p].batch_emb)]_vars


\* What process_document and the check of its result raise.
ValidationFailures == {"extract", "blank", "nochunks", "empty_chunks"}

\* An ingestion attempt up to a validation failure: its steps before the
\* failure write no point; the failure is raised by the step that downloaded
\* the file, before any request to the embedding provider; the handler of
\* the failure writes no point and returns the failure.
ValidationFails(p) ==
    LET a == att[p]
        b == att'[p]
    IN  (a.op \in Ingestions /\ b # a)
        => /\ a.pc \in {"upload_entry", "set_processing", "download"}
              => points' = points /\ collection' = collection
           /\ (b.pc = "except" /\ b.exc \in ValidationFailures)
              => a.pc = "download"
           /\ (a.pc = "except" /\ a.exc \in ValidationFailures)
              => /\ points' = points
                 /\ b.pc = "returned"
                 /\ b.resp = FailResp(ErrMsg(a.exc))

EmbeddingFails(p) ==
    LET a == att[p]
        b == att'[p]
    IN  (a.op \in Ingestions /\ b # a)
        => /\ a.pc \in {"upload_entry", "set_processing", "download", "embed"}
              => points' = points
           /\ (a.pc = "embed" /\ b.pc # "embed")
              => \/ /\ b.pc = "store_ensure"
                    /\ Len(b.all_embeddings) = Len(a.chunks)
                 \/ /\ b.pc = "except"
                    /\ b.exc = "embed"
                    /\ a.attempt = MaxAttempts
                    /\ b.all_embeddings = <<>>
           /\ (a.pc = "except" /\ a.exc = "embed")
              => /\ points' = points
                 /\ b.pc = "returned"
                 /\ b.resp = FailResp(ErrMsg("embed"))

C35_NoChunkWithoutDocument ==
    [][\A pt \in points' \ points : docs[pt.document_id].exists]_vars


\* The first successful ingestion of its document has returned to task p.
FirstIngestionReturned(p) ==
    /\ att[p].pc = "returned"
    /\ att[p].op = "upload"
    /\ att[p].resp.kind = "ok"
    /\ Len(hist[att[p].doc].ns) = 1

\* The document is completed and has exactly one point per chunk of its
\* file, tagged with the document, the user and the chunk's index and text.
IngestedAlone(d, u) ==
    LET segs == chunk_text(storage[docs[d].file_path].text)
    IN  /\ docs[d].status = "completed"
        /\ Cardinality(DocPoints(d)) = Len(segs)
        /\ \A i \in 1..Len(segs) :
              \E pt \in DocPoints(d) :
                 /\ pt.user_id = u
                 /\ pt.chunk_index = i - 1
                 /\ pt.chunk_text = segs[i].text
                 /\ pt.vector = EmbeddingOf(segs[i].text)

\* C36: of two ingestion attempts for different documents whose steps
\* interleave, each step leaves the row and the points of the other
\* document as they are, and when the first attempt for a document has
\* returned success the document is completed with exactly its own N points,
\* tagged with its document_id, its user_id and chunk_index 0..N-1, as after
\* an attempt that ran alone.
C36_IndependentIngestions ==
    /\ [](\A p \in Procs :
            FirstIngestionReturned(p)
            => /\ att[p].resp.count = Cardinality(DocPoints(att[p].doc))
               /\ IngestedAlone(att[p].doc, att[p].user))
    /\ [][\A p \in Procs : \A d \in Docs :
            (att'[p] # att[p] /\ att'[p].doc # d)
            => /\ docs'[d] = docs[d]
               /\ {pt \in points' : pt.document_id = d} = DocPoints(d)]_vars

\* Both attempts have returned success after they held their temporary
\* files at the same time; the store has the three points of each document.
C36_Witness ==
    /\ \A p \in Procs : FirstIngestionReturned(p)
    /\ att[1].tmp_name # att[2].tmp_name
    /\ \A d \in Docs : Cardinality(DocPoints(d)) = 3
    /\ Cardinality(points) = 6


\* created_at is there and earlier than now minus the retention window.
OlderThanCutoff(created_at) ==
    created_at # NoCreatedAt /\ created_at < now - RetentionDays

\* C37: a step of the retention sweep leaves every metadata row whose
\* created_at is not earlier than now minus the retention window as it is,
\* and leaves every point in the store whose created_at is not earlier than
\* that cutoff or that has no created_at.
C37_OnlyOlderThanCutoff ==
    [][\A p \in Procs :
         (att[p].op \in CleanupOps /\ att'[p] # att[p])
         => /\ \A d \in Docs :
                  (docs[d].exists /\ ~OlderThanCutoff(docs[d].created_at))
                  => docs'[d] = docs[d]
            /\ \A pt \in points :
                  ~OlderThanCutoff(pt.created_at) => pt \in points']_vars

\* A run of the sweep has deleted a row and points of the days before the
\* cutoff; the row created on the day of the cutoff and the point without
\* created_at are still there.
C37_Witness ==
    \E p \in Procs :
        /\ att[p].pc = "returned"
        /\ att[p].op = "cleanup_task"
        /\ att[p].deleted_docs = <<"d1">>
        /\ att[p].deleted_vectors_count > 0
        /\ docs["d2"].exists
        /\ docs["d2"].created_at = now - RetentionDays
        /\ \E pt \in points : pt.created_at = NoCreatedAt


\* C38: after a call of delete_old_vectors that returned without error no
\* point whose created_at precedes the cutoff is in the collection, and the
\* count it returned is the number of points it removed.
C38_OldVectorsDeleted ==
    [][\A p \in Procs :
         (att[p].pc = "cl_vectors" /\ att'[p].pc = "returned"
          /\ att'[p].exc = "none")
         => /\ \A pt \in points' : ~OlderThanCutoff(pt.created_at)
            /\ att'[p].deleted_vectors_count = Cardinality(points \ points')]_vars


\* The request names a document whose row is of another tenant.
NamesForeign(a) ==
    \/ /\ a.op \in {"upload", "reprocess", "delete_document"}
       /\ docs[a.doc].exists
       /\ docs[a.doc].user_id # a.user
    \/ /\ a.op = "delete_multiple"
       /\ \E i \in 1..Len(a.document_ids.ids) :
             /\ docs[a.document_ids.ids[i]].exists
             /\ docs[a.document_ids.ids[i]].user_id # a.user

\* C39: a request to upload_document, reprocess_document, delete_document
\* or delete_multiple_documents that names a document of another tenant
\* does nothing before its ownership check and is answered 403 by it; no
\* step of the request changes a metadata row, a storage file, a point or
\* the collection.
C39_CrossTenantRejected ==
    /\ [](\A p \in Procs :
            (att[p].pc # "idle" /\ NamesForeign(att[p]))
            => \/ att[p].pc \in {"upload_entry", "dm_verify"}
               \/ att[p].pc = "returned" /\ att[p].resp = HttpError(403))
    /\ [][\A p \in Procs :
            (att'[p] # att[p] /\ (NamesForeign(att[p]) \/ NamesForeign(att'[p])))
            => UNCHANGED <<docs, storage, points, collection, nextId>>]_vars

\* u2 asked for the deletion of its own document and of the document of
\* u1: 403, and both rows, the file and the points of u1 are in place.
C39_Witness ==
    \E p \in Procs :
        /\ att[p].pc = "returned"
        /\ att[p].op = "delete_multiple"
        /\ att[p].user = "u2"
        /\ att[p].document_ids.ids = <<"d2", "d1">>
        /\ att[p].resp = HttpError(403)
        /\ docs["d1"].status = "completed"
        /\ docs["d2"].exists
        /\ storage["p1"] # NoFile
        /\ Cardinality(DocPoints("d1")) = 3


\* C40: manual_cleanup answers success exactly when neither
\* cleanup_old_documents nor delete_old_vectors raised in the run of
\* cleanup_task it awaited.
C40_ManualCleanupReports ==
    \A p \in Procs :
        (att[p].pc = "returned" /\ att[p].op = "manual_cleanup")
        => (att[p].resp.kind = "ok" <=> att[p].exc = "none")

====
